---- MODULE Spec2Model ----
(***************************************************************************)
(* PoE2 weapon value evaluator: the DPS formula engine (weapon-dps.js),    *)
(* the rune configuration optimizer (rune-options.js), the row parser      *)
(* (weapon-parser.js) and the content script (content.js).                 *)
(*                                                                         *)
(* JavaScript Numbers are modelled as exact rationals [n, d] in lowest     *)
(* terms with d > 0, extended with the three IEEE specials a division by   *)
(* zero produces: d = 0 and n = 1 (+Infinity), n = -1 (-Infinity),         *)
(* n = 0 (NaN).                                                            *)
(***************************************************************************)
EXTENDS Integers, Sequences, FiniteSets, TLC

VARIABLES pc, base, mods, final, out, row, parsed,
          springCount, summerCount, ironCount, best, evaluated, heap, calls,
          rows, panel, processScheduled, frames, records, observing, initRows

vars == <<pc, base, mods, final, out, row, parsed,
          springCount, summerCount, ironCount, best, evaluated, heap, calls,
          rows, panel, processScheduled, frames, records, observing, initRows>>

pageVars == <<rows, panel, processScheduled, frames, records, observing, initRows>>

optVars == <<springCount, summerCount, ironCount, best, evaluated, heap, calls>>

(***************************************************************************)
(* Numbers                                                                 *)
(***************************************************************************)
RECURSIVE GCD(_, _)
GCD(a, b) ==
  IF b = 0 THEN a ELSE CHOOSE g \in {GCD(b, r) : r \in {a % b}} : TRUE

IntAbs(n) == IF n < 0 THEN -n ELSE n

IntSign(n) == IF n < 0 THEN -1 ELSE IF n > 0 THEN 1 ELSE 0

Frac(n, d) ==
  IF d = 0 THEN [n |-> IntSign(n), d |-> 0]
  ELSE LET s == IF d < 0 THEN -1 ELSE 1
       IN  CHOOSE q \in {[n |-> s * (n \div g), d |-> s * (d \div g)] :
                           g \in {GCD(IntAbs(n), IntAbs(d))}} : TRUE

R(n) == [n |-> n, d |-> 1]

Zero == R(0)

One == R(1)

Hundred == R(100)

NaN == [n |-> 0, d |-> 0]

IsNaN(x) == x.d = 0 /\ x.n = 0

IsFinite(x) == x.d # 0

RatSign(x) == IntSign(x.n)

RatNeg(x) == [n |-> -x.n, d |-> x.d]

\* JS `x + y`
RatAdd(x, y) ==
  IF IsFinite(x) /\ IsFinite(y)
  THEN CHOOSE q \in
         {Frac(x.n * (y.d \div g) + y.n * (x.d \div g), (x.d \div g) * y.d) :
            g \in {GCD(x.d, y.d)}} : TRUE
  ELSE IF IsNaN(x) \/ IsNaN(y) THEN NaN
  ELSE IF IsFinite(x) THEN y
  ELSE IF IsFinite(y) THEN x
  ELSE IF x.n = y.n THEN x ELSE NaN

\* JS `x - y`
RatSub(x, y) == RatAdd(x, RatNeg(y))

\* JS `x * y`
RatMul(x, y) ==
  IF IsFinite(x) /\ IsFinite(y)
  THEN CHOOSE q \in
         {Frac((x.n \div g1) * (y.n \div g2), (x.d \div g2) * (y.d \div g1)) :
            g1 \in {GCD(IntAbs(x.n), y.d)}, g2 \in {GCD(IntAbs(y.n), x.d)}} : TRUE
  ELSE IF IsNaN(x) \/ IsNaN(y) THEN NaN
  ELSE IF RatSign(x) = 0 \/ RatSign(y) = 0 THEN NaN
  ELSE [n |-> RatSign(x) * RatSign(y), d |-> 0]

\* JS `x / y`: a zero divisor gives +-Infinity, or NaN for 0 / 0
RatDiv(x, y) ==
  IF IsNaN(x) \/ IsNaN(y) THEN NaN
  ELSE IF IsFinite(y)
       THEN IF y.n = 0 THEN [n |-> RatSign(x), d |-> 0]
            ELSE IF IsFinite(x)
                 THEN CHOOSE q \in {RatMul(x, r) : r \in {Frac(y.d, y.n)}} : TRUE
            ELSE [n |-> RatSign(x) * RatSign(y), d |-> 0]
       ELSE IF IsFinite(x) THEN Zero ELSE NaN

\* JS `x < y`: false as soon as one side is NaN
RatLt(x, y) ==
  IF IsNaN(x) \/ IsNaN(y) THEN FALSE
  ELSE IF IsFinite(x) /\ IsFinite(y)
       THEN \E g \in {GCD(x.d, y.d)} : x.n * (y.d \div g) < y.n * (x.d \div g)
       ELSE IF IsFinite(x) THEN y.n > 0
       ELSE IF IsFinite(y) THEN x.n < 0
       ELSE x.n < y.n

\* JS `x > y`
RatGt(x, y) == RatLt(y, x)

\* JS `x >= y`
RatGeq(x, y) == ~IsNaN(x) /\ ~IsNaN(y) /\ ~RatLt(x, y)

\* JS `x <= y`
RatLeq(x, y) == RatGeq(y, x)

\* Math.abs
RatAbs(x) == [n |-> IntAbs(x.n), d |-> x.d]

\* `rec.k ?? 0` on an object that may lack the property
F(rec, k) == IF k \in DOMAIN rec THEN rec[k] ELSE Zero

\* `rec.k ?? dflt`
FD(rec, k, dflt) == IF k \in DOMAIN rec THEN rec[k] ELSE dflt

Half(x) == RatDiv(x, R(2))

\* the percentage taken without the unit it is added to
Scale_percentOnly(pct) == RatDiv(pct, Hundred)

\* `1 + pct / 100`
Scale(pct) == RatAdd(One, RatDiv(pct, Hundred))

(***************************************************************************)
(* Record shapes                                                           *)
(***************************************************************************)
FlatFields == {"flatPhysMin", "flatPhysMax", "flatFireMin", "flatFireMax",
               "flatColdMin", "flatColdMax", "flatLightningMin",
               "flatLightningMax", "flatChaosMin", "flatChaosMax"}

RuneModFields == FlatFields \cup {"increasedPhys", "increasedAttackSpeed"}

ModFields == RuneModFields \cup {"quality"}

BaseFields == {"basePhysMin", "basePhysMax", "baseAps", "baseFireMin",
               "baseFireMax", "baseColdMin", "baseColdMax",
               "baseLightningMin", "baseLightningMax", "baseChaosMin",
               "baseChaosMax"}

FinalFields == {"physMin", "physMax", "aps", "fireMin", "fireMax", "coldMin",
                "coldMax", "lightningMin", "lightningMax", "chaosMin",
                "chaosMax"}

NULL == [null |-> TRUE]

(***************************************************************************)
(* weapon-dps.js                                                           *)
(***************************************************************************)
\* a sign slip in the attack-speed percentage
attackRate_signSlip(input) ==
  RatMul(F(input, "baseAps"),
         RatSub(One, RatDiv(F(input, "increasedAttackSpeed"), Hundred)))

\* `aps`: base attack rate scaled by increased attack speed
attackRate(input) ==
  RatMul(F(input, "baseAps"), Scale(F(input, "increasedAttackSpeed")))

calcWeaponDps(input) ==
  LET flatPhysMin == RatAdd(F(input, "flatPhysMin"), F(input, "basePhysMin"))
      flatPhysMax == RatAdd(F(input, "flatPhysMax"), F(input, "basePhysMax"))
      increasedPhysMult == Scale(F(input, "increasedPhys"))
      qualityMult == Scale(F(input, "quality"))
      physMin == RatMul(RatMul(flatPhysMin, increasedPhysMult), qualityMult)
      physMax == RatMul(RatMul(flatPhysMax, increasedPhysMult), qualityMult)
      fireMin == RatAdd(F(input, "baseFireMin"), F(input, "flatFireMin"))
      fireMax == RatAdd(F(input, "baseFireMax"), F(input, "flatFireMax"))
      coldMin == RatAdd(F(input, "baseColdMin"), F(input, "flatColdMin"))
      coldMax == RatAdd(F(input, "baseColdMax"), F(input, "flatColdMax"))
      lightningMin == RatAdd(F(input, "baseLightningMin"), F(input, "flatLightningMin"))
      lightningMax == RatAdd(F(input, "baseLightningMax"), F(input, "flatLightningMax"))
      chaosMin == RatAdd(F(input, "baseChaosMin"), F(input, "flatChaosMin"))
      chaosMax == RatAdd(F(input, "baseChaosMax"), F(input, "flatChaosMax"))
      aps == attackRate(input)
      avgPhys == Half(RatAdd(physMin, physMax))
      avgFire == Half(RatAdd(fireMin, fireMax))
      avgCold == Half(RatAdd(coldMin, coldMax))
      avgLightning == Half(RatAdd(lightningMin, lightningMax))
      avgChaos == Half(RatAdd(chaosMin, chaosMax))
      physDps == RatMul(avgPhys, aps)
      eleDps == RatMul(RatAdd(RatAdd(RatAdd(avgFire, avgCold), avgLightning), avgChaos), aps)
      totalDps == RatAdd(physDps, eleDps)
      critChance == RatDiv(RatAdd(FD(input, "baseCritChance", R(5)),
                                  F(input, "flatCritChance")), Hundred)
      critMulti == FD(input, "baseCritMulti", Frac(3, 2))
      critFactor == RatAdd(One, RatMul(critChance, RatSub(critMulti, One)))
      totalDpsWithCrit == RatMul(totalDps, critFactor)
  IN  [physDps |-> physDps, eleDps |-> eleDps, totalDps |-> totalDps,
       totalDpsWithCrit |-> totalDpsWithCrit,
       physMin |-> physMin, physMax |-> physMax, aps |-> aps]

\* the quality factor left out of the denominator
physScale_noQuality(m) == Scale(F(m, "increasedPhys"))

physScaleOf(m) == RatMul(Scale(F(m, "increasedPhys")), Scale(F(m, "quality")))

\* the percentage taken as a fraction
apsScale_noPercent(m) == RatAdd(One, F(m, "increasedAttackSpeed"))

apsScaleOf(m) == Scale(F(m, "increasedAttackSpeed"))

reverseEngineerBase(fin, m) ==
  LET physScale == physScaleOf(m)
      apsScale == apsScaleOf(m)
  IN  [basePhysMin |-> RatSub(RatDiv(F(fin, "physMin"), physScale), F(m, "flatPhysMin")),
       basePhysMax |-> RatSub(RatDiv(F(fin, "physMax"), physScale), F(m, "flatPhysMax")),
       baseAps |-> RatDiv(F(fin, "aps"), apsScale),
       baseFireMin |-> RatSub(F(fin, "fireMin"), F(m, "flatFireMin")),
       baseFireMax |-> RatSub(F(fin, "fireMax"), F(m, "flatFireMax")),
       baseColdMin |-> RatSub(F(fin, "coldMin"), F(m, "flatColdMin")),
       baseColdMax |-> RatSub(F(fin, "coldMax"), F(m, "flatColdMax")),
       baseLightningMin |-> RatSub(F(fin, "lightningMin"), F(m, "flatLightningMin")),
       baseLightningMax |-> RatSub(F(fin, "lightningMax"), F(m, "flatLightningMax")),
       baseChaosMin |-> RatSub(F(fin, "chaosMin"), F(m, "flatChaosMin")),
       baseChaosMax |-> RatSub(F(fin, "chaosMax"), F(m, "flatChaosMax"))]

epsilon == Frac(1, 100)

\* Math.abs(a - b) < epsilon
Within(a, b) == RatLt(RatAbs(RatSub(a, b)), epsilon)

\* the object literal reverseAndVerify hands to calcWeaponDps
VerifyInput(b, m) ==
  [k \in BaseFields \cup ModFields |->
     IF k \in BaseFields THEN b[k] ELSE F(m, k)]

reverseAndVerify(fin, m) ==
  LET b == reverseEngineerBase(fin, m)
      reconstructed == calcWeaponDps(VerifyInput(b, m))
      physMatches == Within(reconstructed.physMin, F(fin, "physMin"))
                     /\ Within(reconstructed.physMax, F(fin, "physMax"))
      apsMatches == Within(reconstructed.aps, F(fin, "aps"))
  IN  [base |-> b, reconstructed |-> reconstructed,
       matches |-> physMatches /\ apsMatches]

(***************************************************************************)
(* rune-options.js                                                         *)
(***************************************************************************)
\* the Spring rune's lightning maximum mistyped
RUNE_OPTIONS_weakSpring ==
  << [id |-> "greater-iron", name |-> "Greater Iron Rune",
      increasedPhys |-> R(18)],
     [id |-> "thane-summer", name |-> "Thane Myrk's Rune of Summer",
      flatFireMin |-> R(23), flatFireMax |-> R(34)],
     [id |-> "thane-spring", name |-> "Thane Leld's Rune of Spring",
      flatLightningMin |-> R(1), flatLightningMax |-> R(6)],
     [id |-> "quipolatl", name |-> "Soul Core of Quipolatl",
      increasedAttackSpeed |-> R(5)] >>

RUNE_OPTIONS ==
  << [id |-> "greater-iron", name |-> "Greater Iron Rune",
      increasedPhys |-> R(18)],
     [id |-> "thane-summer", name |-> "Thane Myrk's Rune of Summer",
      flatFireMin |-> R(23), flatFireMax |-> R(34)],
     [id |-> "thane-spring", name |-> "Thane Leld's Rune of Spring",
      flatLightningMin |-> R(1), flatLightningMax |-> R(60)],
     [id |-> "quipolatl", name |-> "Soul Core of Quipolatl",
      increasedAttackSpeed |-> R(5)] >>

Min(a, b) == IF a < b THEN a ELSE b

\* RUNE_OPTIONS.find((r) => r.id === id); NULL stands for undefined
FindRune(id) ==
  LET hits == {i \in DOMAIN RUNE_OPTIONS : RUNE_OPTIONS[i].id = id}
  IN  IF hits = {} THEN NULL
      ELSE RUNE_OPTIONS[CHOOSE i \in hits : \A j \in hits : i <= j]

\* the per-socket contribution applied once, whatever the count
applyRuneToMods_onePerRune(m, rune, count) ==
  IF count <= 0 THEN m
  ELSE [k \in DOMAIN m |->
          IF k \in (DOMAIN rune \ {"id", "name"})
          THEN RatAdd(m[k], rune[k]) ELSE m[k]]

applyRuneToMods(m, rune, count) ==
  LET slots == IF count > 0 THEN count ELSE 0
  IN  IF slots = 0 THEN m
      ELSE [k \in DOMAIN m |->
              IF k \in (DOMAIN rune \ {"id", "name"})
              THEN RatAdd(m[k], RatMul(rune[k], R(slots))) ELSE m[k]]

\* the early return taken only for negative counts
noSlots_negativeOnly(S) == S < 0

\* `!runeSlotCount || runeSlotCount < 1`
noSlots(S) == S = 0 \/ S < 1

modsWithoutRunes(m, rm) ==
  [k \in ModFields |->
     IF k = "quality" THEN F(m, k) ELSE RatSub(F(m, k), F(rm, k))]

\* Spring allowed in every socket
springLimit_everySocket(S) == S

\* upper bound of the springCount loop
springLimit(S) == Min(1, S)

\* upper bound of the summerCount loop
summerLimit(S, sp) == Min(1, S - sp)

\* the Summer rune's socket not taken off the remainder
remainingAfterSpringSummer_summerFree(S, sp, su) == S - sp

remainingAfterSpringSummer(S, sp, su) == S - sp - su

\* the comparison turned round
Better_lowest(dps, b) == b = NULL \/ RatLt(dps, b.dps)

\* `!best || dps >= best.dps`
Better_orEqual(dps, b) == b = NULL \/ RatGeq(dps, b.dps)

\* `!best || dps > best.dps`
Better(dps, b) == b = NULL \/ RatGt(dps, b.dps)

Done(S) == <<springLimit(S) + 1, 0, 0>>

\* the first loop position at or after the summerCount loop header (sp, su):
\* the nested for statements' tests, in order
RECURSIVE EnterLoops(_, _, _)
EnterLoops(S, sp, su) ==
  IF sp > springLimit(S) THEN Done(S)
  ELSE IF su > summerLimit(S, sp) THEN EnterLoops(S, sp + 1, 0)
  ELSE IF 0 <= remainingAfterSpringSummer(S, sp, su) THEN <<sp, su, 0>>
  ELSE EnterLoops(S, sp, su + 1)

\* the loop position after the body ran at (sp, su, ir)
Advance(S, sp, su, ir) ==
  IF ir + 1 <= remainingAfterSpringSummer(S, sp, su) THEN <<sp, su, ir + 1>>
  ELSE EnterLoops(S, sp, su + 1)

\* Objects: the heap maps the address of each live object to its value.  The
\* arguments base, mods and runeMods of computeBestRuneVariant sit at
\* addresses 1, 2 and 3, its modsWithoutRunes object at address 4.
BaseRef == 1

ModsRef == 2

RuneModsRef == 3

ModsWithoutRunesRef == 4

\* the address of the next object created
Fresh(h) == 1 + CHOOSE a \in DOMAIN h : \A x \in DOMAIN h : x <= a

\* the heap once the objects no longer referenced are collected
Collect(h, live) == [a \in DOMAIN h \cap live |-> h[a]]

\* the rune's effects written into the object passed in
applyRuneToModsCall_inPlace(h, m, rune, count) ==
  [heap |-> [h EXCEPT ![m] = applyRuneToMods(h[m], rune, count)], ret |-> m]

\* applyRuneToMods on objects: `out = { ...mods }` is a new object, the only
\* one written to, and the one returned
applyRuneToModsCall(h, m, rune, count) ==
  LET o == Fresh(h)
  IN  [heap |-> h @@ (o :> applyRuneToMods(h[m], rune, count)), ret |-> o]

\* `if (rune && count > 0) modsWithRunes = applyRuneToMods(modsWithRunes,
\* rune, count)`; calls keeps, for each call made, the object passed, its
\* value at the call and the object returned
ApplyIfAny(st, id, count) ==
  LET rune == FindRune(id)
      r == applyRuneToModsCall(st.heap, st.ref, rune, count)
  IN  IF rune # NULL /\ count > 0
      THEN [heap |-> r.heap, ref |-> r.ret,
            calls |-> Append(st.calls,
                             [mods |-> st.ref, rune |-> id, count |-> count,
                              before |-> st.heap[st.ref], out |-> r.ret])]
      ELSE st

\* modsWithRunes of one candidate: a copy of modsWithoutRunes, then iron,
\* summer, spring, quip applied in turn
modsWithRunes(h, ir, su, sp, qu) ==
  LET copy == Fresh(h)
      s0 == [heap |-> h @@ (copy :> h[ModsWithoutRunesRef]), ref |-> copy,
             calls |-> <<>>]
  IN  CHOOSE s4 \in
        {ApplyIfAny(s3, "quipolatl", qu) : s3 \in
          {ApplyIfAny(s2, "thane-spring", sp) : s2 \in
            {ApplyIfAny(s1, "thane-summer", su) : s1 \in
              {ApplyIfAny(s, "greater-iron", ir) : s \in {s0}}}}} : TRUE

\* the `input` object literal of one candidate
CandidateInput(b, m) ==
  m @@ [k \in BaseFields |-> F(b, k)]

\* the objects a candidate leaves referenced: the arguments,
\* modsWithoutRunes, best.modsWithRune and those of the recorded calls
Live(b, cs) ==
  (BaseRef..ModsWithoutRunesRef)
    \cup (IF b = NULL THEN {} ELSE {b.modsWithRune})
    \cup {cs[i].mods : i \in DOMAIN cs} \cup {cs[i].out : i \in DOMAIN cs}

\* `const result = calcDps(input)` and the update of best, for the candidate
\* cfg whose modsWithRunes object is st.ref; the objects no longer referenced
\* are collected
Scored(st, b, cfg) ==
  LET dps == calcWeaponDps(CandidateInput(st.heap[BaseRef], st.heap[st.ref])).totalDps
  IN  CHOOSE c \in
        {[heap |-> Collect(st.heap, Live(newBest, st.calls)), best |-> newBest,
          calls |-> st.calls, configuration |-> cfg] :
           newBest \in {IF Better(dps, b)
                        THEN [rune |-> [configuration |-> cfg], dps |-> dps,
                              modsWithRune |-> st.ref]
                        ELSE b}} : TRUE

\* the body of the innermost loop at (sp, su, ir), run on heap h with the
\* best candidate so far b
Candidate(h, b, S, sp, su, ir) ==
  LET quipCount == remainingAfterSpringSummer(S, sp, su) - ir
      cfg == [iron |-> ir, summer |-> su, spring |-> sp, quip |-> quipCount]
  IN  CHOOSE c \in
        {Scored(st, b, cfg) : st \in {modsWithRunes(h, ir, su, sp, quipCount)}} : TRUE

\* the loops from position pos to their end; the result holds the
\* modsWithRune object itself
RECURSIVE RunLoops(_, _, _, _)
RunLoops(h, b, S, pos) ==
  IF pos[1] > springLimit(S)
  THEN IF b = NULL THEN NULL
       ELSE [rune |-> b.rune, dps |-> b.dps, modsWithRune |-> h[b.modsWithRune]]
  ELSE CHOOSE r \in
         {RunLoops(c.heap, c.best, S, next) :
            c \in {Candidate(h, b, S, pos[1], pos[2], pos[3])},
            next \in {Advance(S, pos[1], pos[2], pos[3])}} : TRUE

\* computeBestRuneVariant(base, mods, runeMods, runeSlotCount, calcWeaponDps)
computeBestRuneVariant(b, m, rm, S) ==
  IF noSlots(S) THEN NULL
  ELSE CHOOSE r \in
         {RunLoops(h, NULL, S, pos) :
            h \in {<<b, m, rm, modsWithoutRunes(m, rm)>>},
            pos \in {EnterLoops(S, 0, 0)}} : TRUE

(***************************************************************************)
(* weapon-parser.js                                                        *)
(*                                                                         *)
(* A text is its sequence of whitespace-separated tokens: a word keeps its *)
(* letters (w, in lower case) and the case it is written in (c: "lower",   *)
(* "Title" or "UPPER"); "%", "+" and "-" are words of their own; a numeral *)
(* `\d+(?:\.\d+)?` keeps the number it denotes.  A regular expression is   *)
(* the sequence of its literals, "#" standing for a numeral capture group. *)
(*                                                                         *)
(* A row carries what the DOM lookups find: whether an item root exists,   *)
(* the elements of the pdamage, aps and quality fields (NULL when absent), *)
(* the stat spans (data-field as its dot-separated segments, and text) and *)
(* the sockets element (NULL when absent): the capture of its numSocketsN  *)
(* class token and its number of .socket--rune children.                   *)
(***************************************************************************)
Word(w, c) == [w |-> w, c |-> c]

Num(x) == [num |-> x]

IsNum(t) == "num" \in DOMAIN t

\* a literal of a regular expression with the i flag
MatchesIgnoreCase(t, lit) == ~IsNum(t) /\ t.w = lit

\* a literal of a regular expression without the i flag, written in case c
MatchesExactCase(t, lit, c) == ~IsNum(t) /\ t.w = lit /\ t.c = c

MatchAt(text, i, pat) ==
  /\ i + Len(pat) - 1 <= Len(text)
  /\ \A j \in DOMAIN pat :
       IF pat[j] = "#" THEN IsNum(text[i + j - 1])
       ELSE MatchesIgnoreCase(text[i + j - 1], pat[j])

\* text.match(regex): where the leftmost match starts, 0 for no match
Match(text, pat) ==
  LET hits == {i \in 1..Len(text) : MatchAt(text, i, pat)}
  IN  IF hits = {} THEN 0 ELSE CHOOSE i \in hits : \A j \in hits : i <= j

\* parseFloat of the capture groups of the match at i
Captures(text, i, pat) ==
  LET groups == SelectSeq([j \in 1..Len(pat) |-> j], LAMBDA j : pat[j] = "#")
  IN  [g \in 1..Len(groups) |-> text[i + groups[g] - 1].num]

\* `text.replace(/[^\d.-]/g, '')` followed by parseFloat, NULL for NaN
parseNum(text) ==
  LET kept == SelectSeq(text, LAMBDA t : IsNum(t) \/ t.w = "-")
      numAt(i) == i <= Len(kept) /\ IsNum(kept[i])
  IN  CASE kept = <<>> -> NULL
        [] numAt(1) /\ ~numAt(2) -> kept[1].num
        [] ~numAt(1) /\ Len(kept) >= 1 /\ numAt(2) /\ ~numAt(3) -> RatNeg(kept[2].num)
        [] ~numAt(1) /\ Len(kept) >= 1 /\ ~numAt(2) -> NULL

\* /(\d+(?:\.\d+)?)\s*(?:-|to)\s*(\d+(?:\.\d+)?)/i
RANGE_REGEX == {<<"#", "-", "#">>, <<"#", "to", "#">>}

parseRange(text) ==
  LET hits == {i \in 1..Len(text) : \E pat \in RANGE_REGEX : MatchAt(text, i, pat)}
      i == CHOOSE h \in hits : \A j \in hits : h <= j
  IN  IF hits = {} THEN [min |-> NULL, max |-> NULL]
      ELSE [min |-> text[i].num, max |-> text[i + 2].num]

\* the element's trimmed text, NULL for no element or an empty text
getFieldText(r, field) ==
  IF r[field] = NULL THEN NULL
  ELSE IF r[field].text = <<>> THEN NULL ELSE r[field]

\* the attack rate no longer required
parseFinalStats_apsOptional(r) ==
  LET pdamageText == getFieldText(r, "pdamage")
      apsText == getFieldText(r, "aps")
      physRange == parseRange(pdamageText.text)
      aps == IF apsText = NULL THEN NULL ELSE parseNum(apsText.text)
  IN  IF pdamageText = NULL THEN NULL
      ELSE IF physRange.min = NULL \/ physRange.max = NULL THEN NULL
      ELSE [k \in FinalFields |->
              IF k = "physMin" THEN physRange.min
              ELSE IF k = "physMax" THEN physRange.max
              ELSE IF k = "aps" /\ aps # NULL THEN aps ELSE Zero]

parseFinalStats(r) ==
  LET pdamageText == getFieldText(r, "pdamage")
      apsText == getFieldText(r, "aps")
      physRange == parseRange(pdamageText.text)
      aps == parseNum(apsText.text)
  IN  IF pdamageText = NULL \/ apsText = NULL THEN NULL
      ELSE IF physRange.min = NULL \/ physRange.max = NULL \/ aps = NULL THEN NULL
      ELSE [k \in FinalFields |->
              IF k = "physMin" THEN physRange.min
              ELSE IF k = "physMax" THEN physRange.max
              ELSE IF k = "aps" THEN aps ELSE Zero]

MOD_REGEX ==
  [increasedPhys |-> <<"#", "%", "increased", "physical", "damage">>,
   increasedAttackSpeed |-> <<"#", "%", "increased", "attack", "speed">>,
   flatPhys |-> <<"adds", "#", "to", "#", "physical", "damage">>,
   flatFire |-> <<"adds", "#", "to", "#", "fire", "damage">>,
   flatCold |-> <<"adds", "#", "to", "#", "cold", "damage">>,
   flatLightning |-> <<"adds", "#", "to", "#", "lightning", "damage">>,
   flatChaos |-> <<"adds", "#", "to", "#", "chaos", "damage">>]

\* /Companions|Minions|Allies|have\s+\d/.test(text)
entityExclusion(text) ==
  \E i \in 1..Len(text) :
    \/ MatchesExactCase(text[i], "companions", "Title")
    \/ MatchesExactCase(text[i], "minions", "Title")
    \/ MatchesExactCase(text[i], "allies", "Title")
    \/ /\ MatchesExactCase(text[i], "have", "lower")
       /\ i + 1 <= Len(text)
       /\ IsNum(text[i + 1])

EmptyRecord == [k \in {} |-> Zero]

\* one percentage pattern of parseModText: `out.k = (out.k ?? 0) + group 1`
PercentOf(text, k) ==
  LET i == Match(text, MOD_REGEX[k])
  IN  IF i = 0 THEN EmptyRecord
      ELSE k :> RatAdd(Zero, Captures(text, i, MOD_REGEX[k])[1])

\* one flat pattern of parseModText
FlatOf(text, rx, kmin, kmax) ==
  LET i == Match(text, MOD_REGEX[rx])
      groups == Captures(text, i, MOD_REGEX[rx])
  IN  IF i = 0 THEN EmptyRecord
      ELSE (kmin :> RatAdd(Zero, groups[1])) @@ (kmax :> RatAdd(Zero, groups[2]))

parseModText(text) ==
  IF text = <<>> THEN EmptyRecord
  ELSE PercentOf(text, "increasedPhys")
       @@ (IF entityExclusion(text) THEN EmptyRecord
           ELSE PercentOf(text, "increasedAttackSpeed"))
       @@ FlatOf(text, "flatPhys", "flatPhysMin", "flatPhysMax")
       @@ FlatOf(text, "flatFire", "flatFireMin", "flatFireMax")
       @@ FlatOf(text, "flatCold", "flatColdMin", "flatColdMax")
       @@ FlatOf(text, "flatLightning", "flatLightningMin", "flatLightningMax")
       @@ FlatOf(text, "flatChaos", "flatChaosMin", "flatChaosMax")

\* the selector [data-field^="prefix."]
FieldStartsWith(field, prefix) ==
  /\ Len(field) > Len(prefix)
  /\ SubSeq(field, 1, Len(prefix)) = prefix

\* each parsed value assigned in place of the running sum
RECURSIVE SumSpans_overwrite(_, _)
SumSpans_overwrite(spans, acc) ==
  IF spans = <<>> THEN acc
  ELSE LET p == parseModText(Head(spans).text)
       IN  SumSpans_overwrite(Tail(spans),
                    [k \in DOMAIN acc |->
                       IF k \in DOMAIN p THEN p[k] ELSE acc[k]])

\* `for (const span of spans) ... mods[k] += v`
RECURSIVE SumSpans(_, _)
SumSpans(spans, acc) ==
  IF spans = <<>> THEN acc
  ELSE LET p == parseModText(Head(spans).text)
       IN  SumSpans(Tail(spans),
                    [k \in DOMAIN acc |->
                       IF k \in DOMAIN p THEN RatAdd(acc[k], p[k]) ELSE acc[k]])

\* the rune markers looked at before the class token
parseRuneSlotCount_markersFirst(r) ==
  IF r.sockets # NULL /\ r.sockets.runeSockets > 0 THEN r.sockets.runeSockets
  ELSE IF r.sockets # NULL /\ r.sockets.numSockets # <<>> THEN r.sockets.numSockets[1]
  ELSE 2

parseRuneSlotCount(r) ==
  IF r.sockets # NULL /\ r.sockets.numSockets # <<>> THEN r.sockets.numSockets[1]
  ELSE IF r.sockets # NULL /\ r.sockets.runeSockets > 0 THEN r.sockets.runeSockets
  ELSE 2

\* every stat span taken for a rune's
parseRuneModifiers_everySpan(r) ==
  SumSpans(SelectSeq(r.stats, LAMBDA s : FieldStartsWith(s.field, <<"stat">>)),
           [k \in RuneModFields |-> Zero])

parseRuneModifiers(r) ==
  SumSpans(SelectSeq(r.stats, LAMBDA s : FieldStartsWith(s.field, <<"stat", "rune">>)),
           [k \in RuneModFields |-> Zero])

parseModifiers(r) ==
  LET qualityText == getFieldText(r, "quality")
      q == IF qualityText = NULL THEN NULL ELSE parseNum(qualityText.text)
  IN  SumSpans(SelectSeq(r.stats, LAMBDA s : FieldStartsWith(s.field, <<"stat">>)),
               [k \in ModFields |->
                  IF k = "quality" /\ q # NULL THEN q ELSE Zero])

\* findItemRoot
findItemRoot(r) == IF r.hasRoot THEN r ELSE NULL

parseWeaponRow(r) ==
  LET root == findItemRoot(r)
  IN  IF root = NULL THEN NULL
      ELSE IF parseFinalStats(root) = NULL THEN NULL
      ELSE [final |-> parseFinalStats(root), mods |-> parseModifiers(root),
            runeMods |-> parseRuneModifiers(root),
            runeSlotCount |-> parseRuneSlotCount(root)]

\* with weapon-dps.js loaded (window.PoeValueEvaluator.weaponDps present)
parseAndReverseEngineer(r) ==
  LET p == parseWeaponRow(r)
  IN  IF p = NULL THEN NULL
      ELSE [final |-> p.final, mods |-> p.mods, runeMods |-> p.runeMods,
            runeSlotCount |-> p.runeSlotCount,
            base |-> reverseEngineerBase(p.final, p.mods)]

(***************************************************************************)
(* Input domains                                                           *)
(***************************************************************************)
MaxQualitySteps == 1

MaxDelta == 2

ZeroMods == [k \in ModFields |-> Zero]

ZeroBase == [k \in BaseFields |-> Zero]

\* physical damage ranges <<min, max>>
PhysRanges == {<<R(100), R(100)>>, <<R(200), R(300)>>, <<R(300), R(450)>>,
               <<R(10), R(20)>>}

ApsValues == {One, Frac(6, 5)}

\* base elemental ranges: none, an innate fire range, and the negative ranges
\* reverseEngineerBase yields for an item carrying a Summer and a Spring rune
EleProfiles ==
  {[k \in {} |-> Zero],
   [baseFireMin |-> R(10), baseFireMax |-> R(20)],
   [baseFireMin |-> R(-23), baseFireMax |-> R(-34),
    baseLightningMin |-> R(-1), baseLightningMax |-> R(-60)]}

BaseSamples ==
  {[k \in BaseFields |->
      IF k = "basePhysMin" THEN p[1]
      ELSE IF k = "basePhysMax" THEN p[2]
      ELSE IF k = "baseAps" THEN a
      ELSE F(e, k)] : p \in PhysRanges, a \in ApsValues, e \in EleProfiles}

FlatProfiles ==
  {[k \in {} |-> Zero],
   [flatPhysMin |-> R(24), flatPhysMax |-> R(40)],
   [flatFireMin |-> R(23), flatFireMax |-> R(34),
    flatLightningMin |-> R(1), flatLightningMax |-> R(60)],
   [flatColdMin |-> R(3), flatColdMax |-> R(7),
    flatChaosMin |-> R(2), flatChaosMax |-> R(9)]}

IncreasedPhysValues == {R(-100), R(0), R(50)}

QualityValues == {R(20 * q) : q \in 0..MaxQualitySteps}

AttackSpeedValues == {R(-100), R(0), R(10)}

ModSamples ==
  {[k \in ModFields |->
      IF k = "increasedPhys" THEN ip
      ELSE IF k = "quality" THEN q
      ELSE IF k = "increasedAttackSpeed" THEN ias
      ELSE F(fl, k)] :
     ip \in IncreasedPhysValues, q \in QualityValues,
     ias \in AttackSpeedValues, fl \in FlatProfiles}

\* the displayed stats carrying the same numbers as a BaseStats sample
FinalOf(b) ==
  [physMin |-> b.basePhysMin, physMax |-> b.basePhysMax, aps |-> b.baseAps,
   fireMin |-> b.baseFireMin, fireMax |-> b.baseFireMax,
   coldMin |-> b.baseColdMin, coldMax |-> b.baseColdMax,
   lightningMin |-> b.baseLightningMin, lightningMax |-> b.baseLightningMax,
   chaosMin |-> b.baseChaosMin, chaosMax |-> b.baseChaosMax]

\* `{ ...base, ...mods }`: the WeaponInputs object of a forward call
WeaponInput(b, m) == m @@ b

(***************************************************************************)
(* Formula engine: each exported function applied to drawn inputs          *)
(***************************************************************************)
\* no page: the content script is not running
IdlePage ==
  /\ rows = <<>>
  /\ panel = NULL
  /\ processScheduled = FALSE
  /\ frames = 0
  /\ records = FALSE
  /\ observing = FALSE
  /\ initRows = 0

IdleOptimizer ==
  /\ row = NULL
  /\ parsed = NULL
  /\ springCount = 0
  /\ summerCount = 0
  /\ ironCount = 0
  /\ best = NULL
  /\ evaluated = <<>>
  /\ heap = <<>>
  /\ calls = <<>>
  /\ IdlePage

FormulaInit ==
  /\ pc = "input"
  /\ base \in BaseSamples
  /\ mods \in ModSamples
  /\ final = FinalOf(base)
  /\ out = NULL
  /\ IdleOptimizer

\* calcWeaponDps(base + mods)
CalcWeaponDps ==
  /\ pc = "input"
  /\ out' = calcWeaponDps(WeaponInput(base, mods))
  /\ pc' = "forward"
  /\ UNCHANGED <<base, mods, final, row, parsed, optVars, pageVars>>

\* reverseEngineerBase(calcWeaponDps(...), mods)
ReverseOutput ==
  /\ pc = "forward"
  /\ out' = reverseEngineerBase(out, mods)
  /\ pc' = "roundtrip"
  /\ UNCHANGED <<base, mods, final, row, parsed, optVars, pageVars>>

\* reverseEngineerBase(final, mods)
ReverseEngineerBase ==
  /\ pc = "input"
  /\ out' = reverseEngineerBase(final, mods)
  /\ pc' = "reverse"
  /\ UNCHANGED <<base, mods, final, row, parsed, optVars, pageVars>>

\* reverseAndVerify(final, mods)
ReverseAndVerify ==
  /\ pc = "input"
  /\ out' = reverseAndVerify(final, mods)
  /\ pc' = "verified"
  /\ UNCHANGED <<base, mods, final, row, parsed, optVars, pageVars>>

FormulaNext ==
  \/ CalcWeaponDps
  \/ ReverseOutput
  \/ ReverseEngineerBase
  \/ ReverseAndVerify

SpecFormula == FormulaInit /\ [][FormulaNext]_vars

(***************************************************************************)
(* Properties of the formula engine                                        *)
(***************************************************************************)
IsBaseStatsRecord(r) == DOMAIN r = BaseFields

\* C1: after calcWeaponDps on (base, mods) and reverseEngineerBase on its
\* output with the same mods, every field of the base is recovered within
\* 0.01 whenever physScale > 0.
RoundTripEveryField ==
  (pc = "roundtrip" /\ RatGt(physScaleOf(mods), Zero))
    => \A k \in BaseFields : Within(F(out, k), base[k])

ScenarioFinal ==
  [k \in FinalFields |->
     IF k = "physMin" THEN R(300)
     ELSE IF k = "physMax" THEN R(450)
     ELSE IF k = "aps" THEN Frac(6, 5) ELSE Zero]

ScenarioMods ==
  [k \in ModFields |->
     IF k = "increasedPhys" THEN R(50)
     ELSE IF k = "quality" THEN R(20) ELSE Zero]

ReverseScenario == pc = "reverse" /\ final = ScenarioFinal /\ mods = ScenarioMods

\* C4 as stated: reverseEngineerBase on {physMin 300, physMax 450, aps 1.2}
\* with increasedPhys 50 and quality 20 returns base 200-300 and baseAps 1.0.
ReverseScenarioAsClaimed ==
  ReverseScenario
    => /\ Within(out.basePhysMin, R(200))
       /\ Within(out.basePhysMax, R(300))
       /\ Within(out.baseAps, One)

\* C4 amended: on that input reverseEngineerBase returns basePhysMin = 500/3
\* (300 / 1.8), basePhysMax = 250 (450 / 1.8) and baseAps = 1.2 (no attack
\* speed modifier).
ReverseScenarioActual ==
  ReverseScenario
    => /\ out.basePhysMin = Frac(500, 3)
       /\ out.basePhysMax = R(250)
       /\ out.baseAps = Frac(6, 5)

ReverseScenarioReached == ReverseScenario /\ IsBaseStatsRecord(out)

Deltas == {R(k) : k \in 1..MaxDelta}

\* the forward input with one modifier field raised by delta
Bump(input, k, delta) == [input EXCEPT ![k] = RatAdd(@, delta)]

RaisedDps(k, delta) ==
  calcWeaponDps(Bump(WeaponInput(base, mods), k, delta)).totalDps

NonNegativeInput(b, m) ==
  /\ RatGeq(b.baseAps, Zero)
  /\ RatGeq(Scale(m.increasedAttackSpeed), Zero)
  /\ RatGeq(Scale(m.increasedPhys), Zero)
  /\ RatGeq(Scale(m.quality), Zero)
  /\ \A t \in {"Phys", "Fire", "Cold", "Lightning", "Chaos"} :
       \A e \in {"Min", "Max"} :
         RatGeq(RatAdd(b["base" \o t \o e], m["flat" \o t \o e]), Zero)

InconsistentModifiersSignalled ==
  (pc = "reverse" /\ RatLeq(physScaleOf(mods), Zero))
    => ~IsBaseStatsRecord(out)

\* C10: with physScale > 0 and apsScale > 0, reverseAndVerify returns
\* matches = true.
VerifyMatches ==
  (pc = "verified" /\ RatGt(physScaleOf(mods), Zero)
                   /\ RatGt(apsScaleOf(mods), Zero))
    => out.matches

\* a verification that had flat, percentage and quality modifiers to undo
VerifyCase ==
  /\ pc = "verified"
  /\ mods.increasedPhys = R(50)
  /\ mods.quality = R(20)
  /\ mods.increasedAttackSpeed = R(10)
  /\ mods.flatPhysMin = R(24)
  /\ final.physMin = R(300)
  /\ out.matches
  /\ out.base.basePhysMin # final.physMin

\* (100 + pct) / 100
Factor(pct) == RatDiv(RatAdd(Hundred, pct), Hundred)

ElementNames == {"Fire", "Cold", "Lightning", "Chaos"}

\* the sum of base + flat over a set of damage bounds
RECURSIVE SumBounds(_, _)
SumBounds(input, ks) ==
  IF ks = {} THEN Zero
  ELSE LET k == CHOOSE x \in ks : TRUE
       IN  RatAdd(RatAdd(input["base" \o k], input["flat" \o k]),
                  SumBounds(input, ks \ {k}))

\* the reference formula, written from the damage bounds outwards
Reference(input) ==
  LET physMin == RatMul(RatAdd(input.basePhysMin, input.flatPhysMin),
                        RatMul(Factor(input.increasedPhys), Factor(input.quality)))
      physMax == RatMul(RatAdd(input.basePhysMax, input.flatPhysMax),
                        RatMul(Factor(input.increasedPhys), Factor(input.quality)))
      aps == RatMul(input.baseAps, Factor(input.increasedAttackSpeed))
      physDps == RatDiv(RatMul(RatAdd(physMin, physMax), aps), R(2))
      eleBounds == {t \o e : t \in ElementNames, e \in {"Min", "Max"}}
      eleDps == RatDiv(RatMul(SumBounds(input, eleBounds), aps), R(2))
  IN  [physMin |-> physMin, physMax |-> physMax, aps |-> aps,
       physDps |-> physDps, eleDps |-> eleDps,
       totalDps |-> RatAdd(physDps, eleDps)]

ForwardScenario ==
  /\ pc = "forward"
  /\ base = [ZeroBase EXCEPT !.basePhysMin = R(200), !.basePhysMax = R(300),
                             !.baseAps = Frac(6, 5)]
  /\ mods = ScenarioMods

\* C11: calcWeaponDps equals the reference formula on every input: physical
\* bounds (base + flat)(1 + increasedPhys/100)(1 + quality/100), elemental
\* bounds base + flat unscaled (eleDps does not move with increasedPhys or
\* quality), aps = baseAps (1 + increasedAttackSpeed/100), physDps and eleDps
\* the averages times aps, totalDps their sum; base 200-300 at 1.2 with
\* increasedPhys 50 and quality 20 gives physical average 450 and DPS 540.
ForwardMatchesReference ==
  pc = "forward"
    => /\ \A k \in DOMAIN Reference(WeaponInput(base, mods)) :
            out[k] = Reference(WeaponInput(base, mods))[k]
       /\ \A k \in {"increasedPhys", "quality"} : \A delta \in Deltas :
            calcWeaponDps(Bump(WeaponInput(base, mods), k, delta)).eleDps
              = out.eleDps
       /\ ForwardScenario
            => /\ Half(RatAdd(out.physMin, out.physMax)) = R(450)
               /\ out.physDps = R(540)
               /\ out.totalDps = R(540)

\* the forward call of the scenario (no elemental damage)
ForwardScenarioReached ==
  /\ ForwardScenario
  /\ out.totalDps = R(540)
  /\ out.eleDps = Zero

(***************************************************************************)
(* Pipeline: a row is parsed, its base reconstructed, and the optimizer    *)
(* runs its nested loops one candidate at a time                           *)
(***************************************************************************)
MaxSockets == 3

Span(field, text) == [field |-> field, text |-> text]

\* the words of a text, each written in case c
Words(c, ws) == [i \in DOMAIN ws |-> Word(ws[i], c)]

Percent == Word("%", "lower")

Dash == Word("-", "lower")

\* "N% increased <what>"
IncreasedText(n, what) ==
  <<Num(R(n)), Percent>> \o Words("lower", <<"increased">>) \o Words("Title", what)

\* "Adds N to M <Element> Damage"
AddsText(n, m, element) ==
  Words("Title", <<"adds">>) \o <<Num(R(n))>> \o Words("lower", <<"to">>)
    \o <<Num(R(m))>> \o Words("Title", <<element, "damage">>)

\* "Companions have 12% increased Attack Speed"
CompanionText ==
  Words("Title", <<"companions">>) \o Words("lower", <<"have">>)
    \o IncreasedText(12, <<"attack", "speed">>)

\* "Gain 20% of Damage as Extra Lightning Damage"
GainText ==
  Words("Title", <<"gain">>) \o <<Num(R(20)), Percent>> \o Words("lower", <<"of">>)
    \o Words("Title", <<"damage">>) \o Words("lower", <<"as">>)
    \o Words("Title", <<"extra", "lightning", "damage">>)

StatLists ==
  {<<>>,
   <<Span(<<"stat", "explicit", "stat_1">>, IncreasedText(50, <<"physical", "damage">>))>>,
   <<Span(<<"stat", "rune", "stat_1">>, IncreasedText(18, <<"physical", "damage">>)),
     Span(<<"stat", "explicit", "stat_2">>, AddsText(24, 40, "physical"))>>,
   <<Span(<<"stat", "rune", "stat_3">>, AddsText(23, 34, "fire")),
     Span(<<"stat", "rune", "stat_4">>, AddsText(1, 60, "lightning"))>>,
   <<Span(<<"stat", "explicit", "stat_5">>, IncreasedText(10, <<"attack", "speed">>)),
     Span(<<"stat", "rune", "stat_5">>, IncreasedText(5, <<"attack", "speed">>))>>,
   <<Span(<<"stat", "explicit", "stat_3">>, AddsText(5, 138, "fire")),
     Span(<<"stat", "implicit", "stat_6">>, AddsText(3, 7, "cold"))>>,
   <<Span(<<"stat", "explicit", "stat_3">>, AddsText(5, 138, "fire")),
     Span(<<"stat", "rune", "stat_3">>, AddsText(23, 34, "fire")),
     Span(<<"stat", "desecrated", "stat_3">>, AddsText(2, 9, "fire")),
     Span(<<"stat", "explicit", "stat_7">>, AddsText(2, 9, "chaos"))>>,
   <<Span(<<"stat", "explicit", "stat_8">>, CompanionText),
     Span(<<"stat", "explicit", "stat_9">>, GainText),
     Span(<<"stat", "desecrated", "stat_5">>, IncreasedText(17, <<"attack", "speed">>))>>}

\* "min-max", "min to max", or a lone number
PdamageValues ==
  {NULL,
   [text |-> <<Num(R(100)), Dash, Num(R(100))>>],
   [text |-> <<Num(R(10)), Word("to", "lower"), Num(R(20))>>],
   [text |-> <<Num(R(289)), Dash, Num(R(521))>>],
   [text |-> <<Num(Frac(475, 2)), Dash, Num(Frac(475, 2))>>],
   [text |-> <<Num(R(289))>>]}

RowApsValues ==
  {NULL, [text |-> <<>>], [text |-> <<Num(One)>>], [text |-> <<Num(Frac(23, 20))>>],
   [text |-> <<Word("n/a", "lower")>>]}

\* no quality field, or "+20%" for each quality step
RowQualityValues ==
  {NULL} \cup {[text |-> <<Word("+", "lower"), Num(R(20 * q)), Percent>>] :
                 q \in 1..MaxQualitySteps}

SocketValues ==
  {NULL, [numSockets |-> <<1>>, runeSockets |-> 2]}
  \cup {[numSockets |-> <<n>>, runeSockets |-> 0] : n \in 0..MaxSockets}
  \cup {[numSockets |-> <<>>, runeSockets |-> k] : k \in 0..MaxSockets - 1}

RowSamples ==
  [hasRoot : BOOLEAN, pdamage : PdamageValues, aps : RowApsValues,
   quality : RowQualityValues, stats : StatLists, sockets : SocketValues]

Init ==
  /\ pc = "row"
  /\ row \in RowSamples
  /\ parsed = NULL
  /\ base = NULL
  /\ mods = NULL
  /\ final = NULL
  /\ out = NULL
  /\ springCount = 0
  /\ summerCount = 0
  /\ ironCount = 0
  /\ best = NULL
  /\ evaluated = <<>>
  /\ heap = <<>>
  /\ calls = <<>>
  /\ IdlePage

\* parseAndReverseEngineer(row)
ParseAndReverseEngineer ==
  /\ pc = "row"
  /\ parsed' = parseAndReverseEngineer(row)
  /\ pc' = "parsed"
  /\ UNCHANGED <<base, mods, final, out, row, optVars, pageVars>>

\* computeBestRuneVariant(parsed.base, parsed.mods, parsed.runeMods,
\* parsed.runeSlotCount, calcWeaponDps) up to its first loop test
ComputeBestRuneVariant ==
  /\ pc = "parsed"
  /\ parsed # NULL
  /\ IF noSlots(parsed.runeSlotCount)
     THEN /\ pc' = "returned"
          /\ UNCHANGED <<springCount, summerCount, ironCount>>
     ELSE LET pos == EnterLoops(parsed.runeSlotCount, 0, 0)
          IN  /\ springCount' = pos[1]
              /\ summerCount' = pos[2]
              /\ ironCount' = pos[3]
              /\ pc' = "loop"
  /\ best' = NULL
  /\ evaluated' = <<>>
  /\ heap' = IF noSlots(parsed.runeSlotCount)
             THEN <<parsed.base, parsed.mods, parsed.runeMods>>
             ELSE <<parsed.base, parsed.mods, parsed.runeMods,
                    modsWithoutRunes(parsed.mods, parsed.runeMods)>>
  /\ calls' = <<>>
  /\ UNCHANGED <<base, mods, final, out, row, parsed, pageVars>>

\* one pass through the body of the innermost loop
EvaluateCandidate ==
  /\ pc = "loop"
  /\ springCount <= springLimit(parsed.runeSlotCount)
  /\ \E c \in {Candidate(heap, best, parsed.runeSlotCount,
                          springCount, summerCount, ironCount)} :
     LET S == parsed.runeSlotCount
         pos == Advance(S, springCount, summerCount, ironCount)
     IN  /\ best' = c.best
         /\ heap' = c.heap
         /\ calls' = c.calls
         /\ evaluated' = Append(evaluated, c.configuration)
         /\ springCount' = pos[1]
         /\ summerCount' = pos[2]
         /\ ironCount' = pos[3]
  /\ UNCHANGED <<pc, base, mods, final, out, row, parsed, pageVars>>

\* `return best` once the outer loop test fails
ReturnBest ==
  /\ pc = "loop"
  /\ springCount > springLimit(parsed.runeSlotCount)
  /\ pc' = "returned"
  /\ UNCHANGED <<base, mods, final, out, row, parsed, optVars, pageVars>>

Next ==
  \/ ParseAndReverseEngineer
  \/ ComputeBestRuneVariant
  \/ EvaluateCandidate
  \/ ReturnBest

Spec == Init /\ [][Next]_vars

(***************************************************************************)
(* Extractor: parseModText and parseRange applied to one text              *)
(***************************************************************************)
Cases == {"lower", "Title", "UPPER"}

Elements == {"physical", "fire", "cold", "lightning", "chaos"}

Separators == {Word("to", "lower"), Word("to", "UPPER"), Dash}

RangePairs == {<<R(24), R(40)>>, <<R(1), R(60)>>}

Percentages == {R(12), Frac(9, 2)}

\* "Adds N to M <Element> Damage" and "Adds N-M <Element> Damage"
AddsLine(c, sep, pair, element) ==
  Words(c, <<"adds">>) \o <<Num(pair[1]), sep, Num(pair[2])>>
    \o Words(c, <<element, "damage">>)

\* "N% increased Physical Damage", "N% increased Attack Speed"
PercentLine(c, n, what) ==
  <<Num(n), Percent>> \o Words(c, <<"increased">> \o what)

\* "Minions have N% increased Attack Speed"
EntityLine(c, entity, verb, n) ==
  Words(c, <<entity, verb>>) \o PercentLine(c, n, <<"attack", "speed">>)

TextSamples ==
  {<<>>, GainText, CompanionText}
  \cup {AddsLine(c, sep, pair, e) :
          c \in Cases, sep \in Separators, pair \in RangePairs, e \in Elements}
  \cup {PercentLine(c, n, what) :
          c \in Cases, n \in Percentages,
          what \in {<<"physical", "damage">>, <<"attack", "speed">>}}
  \cup {EntityLine(c, entity, verb, n) :
          c \in Cases, entity \in {"companions", "minions", "allies", "enemies"},
          verb \in {"have", "gain"}, n \in Percentages}
  \cup {v.text : v \in (PdamageValues \cup RowQualityValues) \ {NULL}}

ExtractorInit ==
  /\ pc = "text"
  /\ row \in {[text |-> t] : t \in TextSamples}
  /\ out = NULL
  /\ base = NULL
  /\ mods = NULL
  /\ final = NULL
  /\ parsed = NULL
  /\ springCount = 0
  /\ summerCount = 0
  /\ ironCount = 0
  /\ best = NULL
  /\ evaluated = <<>>
  /\ heap = <<>>
  /\ calls = <<>>
  /\ IdlePage

\* parseModText(text)
ParseModText ==
  /\ pc = "text"
  /\ out' = parseModText(row.text)
  /\ pc' = "extracted"
  /\ UNCHANGED <<base, mods, final, row, parsed, optVars, pageVars>>

\* parseRange(text)
ParseRange ==
  /\ pc = "text"
  /\ out' = parseRange(row.text)
  /\ pc' = "ranged"
  /\ UNCHANGED <<base, mods, final, row, parsed, optVars, pageVars>>

ExtractorNext ==
  \/ ParseModText
  \/ ParseRange

SpecExtractor == ExtractorInit /\ [][ExtractorNext]_vars

(***************************************************************************)
(* content.js                                                              *)
(*                                                                         *)
(* A row of the page is a parser row (the item's fields) together with the *)
(* element of its dps field, its price element (the first purely numeric   *)
(* span, the title of the currency image, the text of the currency span),  *)
(* whether it holds a `.right .details` panel, its                         *)
(* data-poe-value-evaluated attribute and its badge elements.              *)
(***************************************************************************)
RECURSIVE Pow10(_)
Pow10(f) == IF f = 0 THEN 1 ELSE 10 * Pow10(f - 1)

\* the integer nearest to n / d for d > 0, a tie going up
RoundHalfUp(n, d) == (2 * n + d) \div (2 * d)

\* Math.round
MathRound(x) == IF ~IsFinite(x) THEN x ELSE R(RoundHalfUp(x.n, x.d))

\* Number.prototype.toFixed: the number the decimal string denotes; the tie
\* of an exact rational goes away from zero
toFixed(x, f) ==
  IF ~IsFinite(x) THEN x
  ELSE Frac(IntSign(x.n) * RoundHalfUp(IntAbs(x.n) * Pow10(f), x.d), Pow10(f))

\* String.prototype.toLowerCase on the currency names of the page
toLowerCase(str) ==
  CASE str = "Divine Orb" -> "divine orb"
    [] str = "Exalted Orb" -> "exalted orb"
    [] str = "Chaos Orb" -> "chaos orb"
    [] str = "Regal Orb" -> "regal orb"
    [] str \in {"divine", "exalted", "chaos", "regal"} -> str

\* .replace(/\s+orb$/i, '')
withoutOrb(str) ==
  CASE str = "divine orb" -> "divine"
    [] str = "exalted orb" -> "exalted"
    [] str = "chaos orb" -> "chaos"
    [] str = "regal orb" -> "regal"
    [] str \in {"divine", "exalted", "chaos", "regal"} -> str

\* currency.slice(0, 3)
slice3(str) ==
  CASE str \in {"divine", "divine orb"} -> "div"
    [] str \in {"exalted", "exalted orb"} -> "exa"
    [] str \in {"chaos", "chaos orb"} -> "cha"
    [] str \in {"regal", "regal orb"} -> "reg"

getDps(r) == IF r.dps = NULL THEN NULL ELSE parseNum(r.dps.text)

\* getPrice without the `amount <= 0` test
getPrice_anyAmount(r) ==
  LET amount == r.price.amount
      currency ==
        IF r.price.title # NULL THEN [name |-> toLowerCase(r.price.title.name)]
        ELSE IF r.price.text # NULL
             THEN [name |-> withoutOrb(toLowerCase(r.price.text.name))]
             ELSE NULL
  IN  IF r.price = NULL THEN NULL
      ELSE IF amount = NULL \/ currency = NULL THEN NULL
      ELSE [amount |-> amount, currency |-> currency.name]

getPrice(r) ==
  LET amount == r.price.amount
      currency ==
        IF r.price.title # NULL THEN [name |-> toLowerCase(r.price.title.name)]
        ELSE IF r.price.text # NULL
             THEN [name |-> withoutOrb(toLowerCase(r.price.text.name))]
             ELSE NULL
  IN  IF r.price = NULL THEN NULL
      ELSE IF amount = NULL \/ currency = NULL THEN NULL
      ELSE IF RatLeq(amount, Zero) THEN NULL
      ELSE [amount |-> amount, currency |-> currency.name]

isWeapon(r) == r.dps # NULL

formatCurrency(currency) ==
  CASE currency = "divine" -> "div"
    [] currency = "chaos" -> "chaos"
    [] currency = "exalted" -> "ex"
    [] currency = "mirror" -> "mirror"
    [] OTHER -> slice3(currency)

\* the non-zero counts of a configuration with the rune each one names, NULL
\* when there is none
formatRuneConfiguration(config) ==
  LET parts ==
        (IF config.iron # 0 THEN <<[count |-> config.iron, rune |-> "Greater Iron"]>> ELSE <<>>)
        \o (IF config.summer # 0 THEN <<[count |-> config.summer, rune |-> "Thane Myrk's Summer"]>> ELSE <<>>)
        \o (IF config.spring # 0 THEN <<[count |-> config.spring, rune |-> "Thane Leld's Spring"]>> ELSE <<>>)
        \o (IF config.quip # 0 THEN <<[count |-> config.quip, rune |-> "Quipolatl"]>> ELSE <<>>)
  IN  IF parts = <<>> THEN NULL ELSE [parts |-> parts]

\* the rows the trade site shows
Item(pdamage, sockets) ==
  [hasRoot |-> TRUE, pdamage |-> pdamage, aps |-> [text |-> <<Num(One)>>],
   quality |-> NULL, stats |-> <<>>, sockets |-> sockets]

PageRow(item, dps, price, details) ==
  item @@ [dps |-> dps, price |-> price, details |-> details,
           evaluated |-> FALSE, badges |-> <<>>]

Unparsed == Item(NULL, NULL)

Sockets(n) == [numSockets |-> <<n>>, runeSockets |-> 0]

HundredRange == [text |-> <<Num(R(100)), Dash, Num(R(100))>>]

DpsText(x) == [text |-> <<Num(x)>>]

Price(amount, title, text) ==
  [amount |-> amount,
   title |-> IF title = "" THEN NULL ELSE [name |-> title],
   text |-> IF text = "" THEN NULL ELSE [name |-> text]]

PageRows ==
  {PageRow(Unparsed, DpsText(Frac(46575, 100)), Price(R(200), "", "Divine Orb"), TRUE),
   PageRow(Item(HundredRange, Sockets(2)), DpsText(R(100)), Price(R(10), "exalted", ""), TRUE),
   PageRow(Item(HundredRange, Sockets(0)), DpsText(R(120)), Price(R(4), "", "Chaos Orb"), TRUE),
   PageRow(Unparsed, NULL, Price(R(1), "Regal Orb", ""), TRUE),
   PageRow(Unparsed, DpsText(R(100)), Price(Zero, "divine", ""), TRUE),
   PageRow(Unparsed, [text |-> <<Word("dps", "UPPER")>>], Price(R(1), "divine", ""), TRUE),
   PageRow(Item(HundredRange, Sockets(1)), DpsText(R(100)), Price(R(2), "divine", ""), FALSE)}

\* `parsed?.base`
hasBase(p) == p # NULL /\ "base" \in DOMAIN p

\* the fields of a row that parseAndReverseEngineer reads
ItemFields == {"hasRoot", "pdamage", "aps", "quality", "stats", "sockets"}

itemOf(r) == [k \in ItemFields |-> r[k]]

\* the optimizer's result for a parsed row, NULL when it is not called or
\* returns null
bestVariant(p) ==
  IF hasBase(p) /\ p.runeSlotCount > 0
  THEN computeBestRuneVariant(p.base, p.mods, p.runeMods, p.runeSlotCount)
  ELSE NULL

\* `parsed` and `best` of processRow and evaluateRowValue for one item
parseAndOptimize(item) ==
  CHOOSE x \in
    {[item |-> item, parsed |-> p, best |-> bestVariant(p)] :
       p \in {parseAndReverseEngineer(item)}} : TRUE

\* the parser and the optimizer are pure functions of the item: their
\* results for the items of the page, computed once
RowAnalyses == {parseAndOptimize(itemOf(r)) : r \in PageRows}

analysisOf(r) == CHOOSE a \in RowAnalyses : a.item = itemOf(r)

\* the DPS recomputed from the parsed item whatever its socket count
displayDps_recomputed(dps, b, p) ==
  IF hasBase(p) THEN calcWeaponDps(WeaponInput(p.base, p.mods)).totalDps ELSE dps

\* `let displayDps = dps; ... if (best) displayDps = best.dps`
displayDps(dps, b, p) == IF b # NULL THEN b.dps ELSE dps

\* badge.textContent and badge.title for listed dps, price, parsed row p and
\* optimizer result b
badgeOf(dps, price, p, b) ==
  LET currencyShort == formatCurrency(price.currency)
      listed == CHOOSE l \in
                  {[dps |-> dps, ratio |-> toFixed(q, 2), unit |-> currencyShort] :
                     q \in {RatDiv(dps, price.amount)}} : TRUE
      ratio == CHOOSE q \in {RatDiv(d, price.amount) : d \in {displayDps(dps, b, p)}} : TRUE
  IN  [text |-> [ratio |-> CHOOSE t \in {toFixed(q, 2) : q \in {ratio}} : TRUE,
                 unit |-> currencyShort],
       title |->
         IF hasBase(p)
         THEN [current |-> listed,
               base |-> [physMin |-> MathRound(p.base.basePhysMin),
                         physMax |-> MathRound(p.base.basePhysMax),
                         aps |-> toFixed(p.base.baseAps, 2)],
               best |-> IF b = NULL THEN NULL
                        ELSE [slots |-> p.runeSlotCount,
                              runes |-> formatRuneConfiguration(b.rune.configuration),
                              dps |-> toFixed(b.dps, 1),
                              ratio |-> CHOOSE t \in
                                          {toFixed(q, 2) :
                                             q \in {RatDiv(b.dps, price.amount)}} : TRUE,
                              unit |-> currencyShort]]
         ELSE [plain |-> [dps |-> dps, amount |-> price.amount,
                          currency |-> price.currency, ratio |-> listed.ratio]]]

\* the row with the badge written into its first badge element, created if
\* there is none, and the attribute set
withBadge(r, badge) ==
  [r EXCEPT !.badges = IF @ = <<>> THEN <<badge>> ELSE [@ EXCEPT ![1] = badge],
            !.evaluated = TRUE]

processRow(r) ==
  IF r.evaluated THEN r
  ELSE IF ~isWeapon(r) THEN r
  ELSE IF getDps(r) = NULL \/ getPrice(r) = NULL THEN r
  ELSE IF ~r.details THEN r
  ELSE CHOOSE x \in
         {withBadge(r, badgeOf(dps, price, a.parsed, a.best)) :
            dps \in {getDps(r)}, price \in {getPrice(r)}, a \in {analysisOf(r)}} : TRUE

\* the entry of one row, NULL when the row is left out
entryOf(r, dps, price, p, b) ==
  [dps |-> dps, displayDps |-> displayDps(dps, b, p),
   priceAmount |-> price.amount, priceCurrency |-> price.currency,
   currencyShort |-> formatCurrency(price.currency),
   ratio |-> CHOOSE q \in {RatDiv(d, price.amount) : d \in {displayDps(dps, b, p)}} : TRUE,
   bestRuneSummary |-> IF b = NULL THEN NULL
                       ELSE formatRuneConfiguration(b.rune.configuration),
   runeSlotCount |-> IF hasBase(p) THEN p.runeSlotCount ELSE 0]

evaluateRowValue(r) ==
  IF ~isWeapon(r) THEN NULL
  ELSE IF getDps(r) = NULL \/ getPrice(r) = NULL THEN NULL
  ELSE CHOOSE x \in
         {entryOf(r, dps, price, a.parsed, a.best) :
            dps \in {getDps(r)}, price \in {getPrice(r)}, a \in {analysisOf(r)}} : TRUE

\* the place an ascending sort would give e
InsertByRatio_ascending(e, sorted) ==
  LET before == {i \in DOMAIN sorted : RatLeq(sorted[i].ratio, e.ratio)}
      k == Cardinality(before)
  IN  SubSeq(sorted, 1, k) \o <<e>> \o SubSeq(sorted, k + 1, Len(sorted))

\* where a stable sort by descending ratio puts e among the sorted entries
InsertByRatio(e, sorted) ==
  LET before == {i \in DOMAIN sorted : RatGeq(sorted[i].ratio, e.ratio)}
      k == Cardinality(before)
  IN  SubSeq(sorted, 1, k) \o <<e>> \o SubSeq(sorted, k + 1, Len(sorted))

\* entries.slice().sort((a, b) => b.ratio - a.ratio)
RECURSIVE SortByRatio(_)
SortByRatio(entries) ==
  IF entries = <<>> THEN <<>>
  ELSE CHOOSE x \in
         {InsertByRatio(entries[Len(entries)], s) :
            s \in {SortByRatio(SubSeq(entries, 1, Len(entries) - 1))}} : TRUE

TopCount == 5

\* one line of the panel
lineOf(entry) ==
  [ratioText |-> toFixed(entry.ratio, 2), dpsText |-> toFixed(entry.displayDps, 1),
   priceAmount |-> entry.priceAmount, priceCurrency |-> entry.priceCurrency,
   runeText |-> IF entry.bestRuneSummary # NULL /\ entry.runeSlotCount > 0
                THEN entry.bestRuneSummary ELSE NULL,
   index |-> entry.index]

\* the panel after renderTopList(entries)
renderTopList(entries, p) ==
  IF entries = <<>> THEN p
  ELSE CHOOSE x \in
         {[lines |-> [i \in 1..Min(TopCount, Len(sorted)) |-> lineOf(sorted[i])]] :
            sorted \in {SortByRatio(entries)}} : TRUE

\* the values pushed to the `evaluated` list, each with its row index
indexed(values) ==
  LET kept == SelectSeq([i \in DOMAIN values |-> i], LAMBDA i : values[i] # NULL)
  IN  [j \in DOMAIN kept |-> values[kept[j]] @@ [index |-> kept[j] - 1]]

\* the `evaluated` list of processAllRows
entriesOf(rs) ==
  CHOOSE x \in
    {indexed(values) :
       values \in {[i \in DOMAIN rs |-> evaluateRowValue(rs[i])]}} : TRUE

\* processAllRows writing the badge of every row again, marked or not
processAllRows_reprocess(rs, p) ==
  CHOOSE x \in
    {[rows |-> [i \in DOMAIN rs |-> processRow([rs[i] EXCEPT !.evaluated = FALSE])],
      panel |-> renderTopList(entries, p)] :
       entries \in {entriesOf(rs)}} : TRUE

\* the rows and the panel after processAllRows
processAllRows(rs, p) ==
  CHOOSE x \in
    {[rows |-> [i \in DOMAIN rs |->
                  IF ~rs[i].evaluated THEN processRow(rs[i]) ELSE rs[i]],
      panel |-> renderTopList(entries, p)] :
       entries \in {entriesOf(rs)}} : TRUE

\* window.requestAnimationFrame left out
requestAnimationFrame_dropped(f) == f

\* window.requestAnimationFrame: one more callback pending
requestAnimationFrame(f) == f + 1

\* scheduleProcessAllRows without `if (processScheduled) return`
scheduleProcessAllRows_unguarded(scheduled, f) ==
  [processScheduled |-> TRUE, frames |-> requestAnimationFrame(f)]

\* scheduleProcessAllRows on the flag and the number of pending callbacks
scheduleProcessAllRows(scheduled, f) ==
  IF scheduled THEN [processScheduled |-> scheduled, frames |-> f]
  ELSE [processScheduled |-> TRUE, frames |-> requestAnimationFrame(f)]

(***************************************************************************)
(* Page: the trade site adds rows, the content script initialises, the     *)
(* MutationObserver callback and the animation-frame callback run.  A      *)
(* callback runs to completion; the observer callback is a microtask and   *)
(* runs before any animation frame.                                        *)
(***************************************************************************)
MaxRows == 3

IdlePipeline ==
  /\ base = NULL
  /\ mods = NULL
  /\ final = NULL
  /\ out = NULL
  /\ row = NULL
  /\ parsed = NULL
  /\ springCount = 0
  /\ summerCount = 0
  /\ ironCount = 0
  /\ best = NULL
  /\ evaluated = <<>>
  /\ heap = <<>>
  /\ calls = <<>>

ContentInit ==
  /\ pc = "page"
  /\ IdlePipeline
  /\ rows = <<>>
  /\ panel = NULL
  /\ processScheduled = FALSE
  /\ frames = 0
  /\ records = FALSE
  /\ observing = FALSE
  /\ initRows = 0

\* the site appends a row to the results container
PageAddsRow ==
  /\ Len(rows) < MaxRows
  /\ \E r \in PageRows : rows' = Append(rows, r)
  /\ records' = (records \/ observing)
  /\ UNCHANGED <<panel, processScheduled, frames, observing, initRows>>
  /\ UNCHANGED <<pc, base, mods, final, out, row, parsed, optVars>>

\* init(): processAllRows(), then observer.observe(container, ...)
InitContentScript ==
  /\ ~observing
  /\ \E r \in {processAllRows(rows, panel)} :
       /\ rows' = r.rows
       /\ panel' = r.panel
  /\ observing' = TRUE
  /\ initRows' = Len(rows)
  /\ UNCHANGED <<processScheduled, frames, records>>
  /\ UNCHANGED <<pc, base, mods, final, out, row, parsed, optVars>>

\* the MutationObserver callback: scheduleProcessAllRows()
ObserverCallback ==
  /\ records
  /\ records' = FALSE
  /\ \E s \in {scheduleProcessAllRows(processScheduled, frames)} :
       /\ processScheduled' = s.processScheduled
       /\ frames' = s.frames
  /\ UNCHANGED <<rows, panel, observing, initRows>>
  /\ UNCHANGED <<pc, base, mods, final, out, row, parsed, optVars>>

\* a pass that wrote the panel p mutated the observed container as if the
\* panel were a child of it
containerMutated_panelInside(before, after, p) == before # after \/ p # NULL

\* whether a pass queued a mutation record: a badge written into a row is a
\* childList mutation inside the observed container; the panel is a child of
\* document.documentElement and lies outside it
containerMutated(before, after, p) == before # after

\* the requestAnimationFrame callback: processScheduled = false;
\* processAllRows()
AnimationFrame ==
  /\ frames > 0
  /\ ~records
  /\ frames' = frames - 1
  /\ processScheduled' = FALSE
  /\ \E r \in {processAllRows(rows, panel)} :
       /\ rows' = r.rows
       /\ panel' = r.panel
       /\ records' = containerMutated(rows, r.rows, r.panel)
  /\ UNCHANGED <<observing, initRows>>
  /\ UNCHANGED <<pc, base, mods, final, out, row, parsed, optVars>>

ContentNext ==
  \/ PageAddsRow
  \/ InitContentScript
  \/ ObserverCallback
  \/ AnimationFrame

SpecContent == ContentInit /\ [][ContentNext]_vars

\* observer notifications and animation-frame callbacks are delivered
SpecContentFair ==
  /\ ContentInit
  /\ [][ContentNext]_vars
  /\ WF_vars(ObserverCallback)
  /\ WF_vars(AnimationFrame)

(***************************************************************************)
(* The same page when the site also rewrites rows in place: the DPS, the   *)
(* price and the modifiers of a row change, the row element, its           *)
(* attributes and what the script put into it stay.                        *)
(***************************************************************************)
\* the site rewrites the first MaxEditRows rows only
MaxEditRows == 1

\* what the site rewrites a row to: another item at another price, a listing
\* without sockets, a listing whose price is gone
RewrittenRows ==
  {PageRow(Item(HundredRange, Sockets(2)), DpsText(R(100)), Price(R(10), "exalted", ""), TRUE),
   PageRow(Item(HundredRange, Sockets(0)), DpsText(R(120)), Price(R(4), "", "Chaos Orb"), TRUE),
   PageRow(Unparsed, DpsText(R(100)), Price(Zero, "divine", ""), TRUE)}

\* row r showing the data of row k
edited(r, k) ==
  [k EXCEPT !.details = r.details, !.evaluated = r.evaluated, !.badges = r.badges]

\* the site rewrites the data of a row
PageEditsRow ==
  /\ \E i \in DOMAIN rows \cap 1..MaxEditRows, k \in RewrittenRows :
       /\ edited(rows[i], k) # rows[i]
       /\ rows' = [rows EXCEPT ![i] = edited(rows[i], k)]
  /\ records' = (records \/ observing)
  /\ UNCHANGED <<panel, processScheduled, frames, observing, initRows>>
  /\ UNCHANGED <<pc, base, mods, final, out, row, parsed, optVars>>

EditsNext ==
  \/ PageAddsRow
  \/ PageEditsRow
  \/ InitContentScript
  \/ ObserverCallback
  \/ AnimationFrame

SpecContentEdits == ContentInit /\ [][EditsNext]_vars

(***************************************************************************)
(* One processAllRows pass over a page of up to MaxListedRows rows, more   *)
(* than the panel shows.  `out` holds the `evaluated` array as it is after *)
(* renderTopList returned.                                                 *)
(***************************************************************************)
MaxListedRows == 6

ListedRows ==
  {PageRow(Unparsed, DpsText(Frac(46575, 100)), Price(R(200), "", "Divine Orb"), TRUE),
   PageRow(Item(HundredRange, Sockets(2)), DpsText(R(100)), Price(R(10), "exalted", ""), TRUE),
   PageRow(Item(HundredRange, Sockets(0)), DpsText(R(120)), Price(R(4), "", "Chaos Orb"), TRUE),
   PageRow(Unparsed, DpsText(R(100)), Price(Zero, "divine", ""), TRUE)}

\* the caller's array after entries.slice().sort(...): slice() copies, the
\* sort works on the copy
arrayAfterRender(entries) == entries

TopListInit ==
  /\ pc = "toplist"
  /\ base = NULL
  /\ mods = NULL
  /\ final = NULL
  /\ out = NULL
  /\ row = NULL
  /\ parsed = NULL
  /\ springCount = 0
  /\ summerCount = 0
  /\ ironCount = 0
  /\ best = NULL
  /\ evaluated = <<>>
  /\ heap = <<>>
  /\ calls = <<>>
  /\ \E n \in 0..MaxListedRows : rows \in [1..n -> ListedRows]
  /\ panel = NULL
  /\ processScheduled = FALSE
  /\ frames = 0
  /\ records = FALSE
  /\ observing = FALSE
  /\ initRows = 0

\* processAllRows()
TopListPass ==
  /\ pc = "toplist"
  /\ pc' = "listed"
  /\ \E r \in {processAllRows(rows, panel)} :
       /\ rows' = r.rows
       /\ panel' = r.panel
  /\ out' = arrayAfterRender(entriesOf(rows))
  /\ UNCHANGED <<processScheduled, frames, records, observing, initRows>>
  /\ UNCHANGED <<base, mods, final, row, parsed, optVars>>

TopListNext == TopListPass

SpecTopList == TopListInit /\ [][TopListNext]_vars

(***************************************************************************)
(* The earlier content script (src/unnamed/part_003): renderTopList keeps  *)
(* its list in a box inserted as first child of the results container, and *)
(* the MutationObserver callback calls processAllRows directly.            *)
(* processRow and evaluateRowValue compute the badge text and the entries  *)
(* as in content.js; only the rune line of the badge title differs.        *)
(***************************************************************************)
\* one <li> of the box
boxLineOf(entry) ==
  [ratioText |-> toFixed(entry.ratio, 2), unit |-> entry.currencyShort,
   dpsText |-> toFixed(entry.displayDps, 1),
   priceAmount |-> entry.priceAmount, priceCurrency |-> entry.priceCurrency]

\* document.createElement('ol'): a node other than the one the box holds;
\* two node names are enough to tell the new list from the one it replaces
createElement(box) == IF box = NULL THEN 0 ELSE 1 - box.listEl

\* the box after renderTopList(entries): nothing is touched for an empty
\* list, otherwise the box is emptied and filled with a new list element
renderTopListInContainer(entries, box) ==
  IF entries = <<>> THEN box
  ELSE CHOOSE x \in
         {[listEl |-> createElement(box),
           lines |-> [i \in 1..Min(TopCount, Len(sorted)) |-> boxLineOf(sorted[i])]] :
            sorted \in {SortByRatio(entries)}} : TRUE

\* processAllRows of that script: the rows, the box, and whether the pass
\* added or removed a node inside the container
processAllRowsInContainer(rs, box) ==
  CHOOSE x \in
    {[rows |-> after, panel |-> renderTopListInContainer(entries, box),
      wrote |-> after # rs \/ entries # <<>>] :
       after \in {[i \in DOMAIN rs |->
                     IF ~rs[i].evaluated THEN processRow(rs[i]) ELSE rs[i]]},
       entries \in {entriesOf(rs)}} : TRUE

\* init(): processAllRows(), then observer.observe(container, ...)
BoxInitScript ==
  /\ ~observing
  /\ \E r \in {processAllRowsInContainer(rows, panel)} :
       /\ rows' = r.rows
       /\ panel' = r.panel
  /\ observing' = TRUE
  /\ initRows' = Len(rows)
  /\ UNCHANGED <<processScheduled, frames, records>>
  /\ UNCHANGED <<pc, base, mods, final, out, row, parsed, optVars>>

\* the MutationObserver callback: processAllRows(); what the pass writes
\* inside the container queues the next notification
BoxObserverCallback ==
  /\ records
  /\ \E r \in {processAllRowsInContainer(rows, panel)} :
       /\ rows' = r.rows
       /\ panel' = r.panel
       /\ records' = r.wrote
  /\ UNCHANGED <<processScheduled, frames, observing, initRows>>
  /\ UNCHANGED <<pc, base, mods, final, out, row, parsed, optVars>>

BoxNext ==
  \/ PageAddsRow
  \/ BoxInitScript
  \/ BoxObserverCallback

\* observer notifications are delivered
SpecBoxFair ==
  /\ ContentInit
  /\ [][BoxNext]_vars
  /\ WF_vars(BoxObserverCallback)

(***************************************************************************)
(* Properties of the optimizer                                             *)
(***************************************************************************)
SlotCount == parsed.runeSlotCount

InOptimizer == pc \in {"loop", "returned"} /\ parsed # NULL

Total(c) == c.iron + c.summer + c.spring + c.quip

\* every legal configuration: non-negative counts, at most one Summer and
\* one Spring, at most S runes in all
LegalConfigurations(S) ==
  {c \in [iron : 0..S, summer : 0..1, spring : 0..1, quip : 0..S] :
     Total(c) <= S}

\* the per-unit contribution of the rune `id` to field k
PerUnit(id, k) ==
  LET r == CHOOSE x \in {RUNE_OPTIONS[i] : i \in DOMAIN RUNE_OPTIONS} : x.id = id
  IN  F(r, k)

\* non-rune modifiers plus count * per-unit contribution of each rune
ConfigurationMods(c) ==
  [k \in ModFields |->
     RatAdd(RatSub(F(parsed.mods, k),
                   IF k = "quality" THEN Zero ELSE F(parsed.runeMods, k)),
            RatAdd(RatAdd(RatMul(R(c.iron), PerUnit("greater-iron", k)),
                          RatMul(R(c.summer), PerUnit("thane-summer", k))),
                   RatAdd(RatMul(R(c.spring), PerUnit("thane-spring", k)),
                          RatMul(R(c.quip), PerUnit("quipolatl", k)))))]

ConfigurationDps(c) ==
  calcWeaponDps(ConfigurationMods(c) @@ parsed.base).totalDps

\* C2: for S >= 1 the DPS computeBestRuneVariant returns is >= the DPS of
\* every legal rune configuration.
OptimizerOptimal ==
  (pc = "returned" /\ SlotCount >= 1)
    => /\ best # NULL
       /\ \A c \in LegalConfigurations(SlotCount) :
            RatGeq(best.dps, ConfigurationDps(c))

\* an optimization over three sockets whose result beats every partly filled
\* configuration and is not the one with every socket on Iron
OptimalCase ==
  /\ pc = "returned"
  /\ SlotCount = 3
  /\ best # NULL
  /\ best.rune.configuration.iron < 3
  /\ \A c \in LegalConfigurations(SlotCount) :
       Total(c) < SlotCount => RatGt(best.dps, ConfigurationDps(c))

\* 2 sockets, no modifiers, base physical 100-100, base attack rate 1.0
EmptyScenario ==
  /\ pc = "returned"
  /\ SlotCount = 2
  /\ parsed.mods = ZeroMods
  /\ \A k \in RuneModFields : parsed.runeMods[k] = Zero
  /\ parsed.base = [ZeroBase EXCEPT !.basePhysMin = R(100),
                                    !.basePhysMax = R(100), !.baseAps = One]

\* C3 as stated: in the empty scenario the result is Iron in both sockets,
\* increasedPhys = 36 and DPS = 136.
EmptyScenarioTwoIron ==
  EmptyScenario
    => /\ best.rune.configuration = [iron |-> 2, summer |-> 0, spring |-> 0, quip |-> 0]
       /\ heap[best.modsWithRune].increasedPhys = R(36)
       /\ best.dps = R(136)

\* C3 amended: in the empty scenario the result is one Summer and one Spring
\* rune (iron = 0, quip = 0), increasedPhys = 0 and DPS = 100 + 28.5 + 30.5
\* = 159; Iron in both sockets scores 136.
EmptyScenarioSummerSpring ==
  EmptyScenario
    => /\ best.rune.configuration = [iron |-> 0, summer |-> 1, spring |-> 1, quip |-> 0]
       /\ heap[best.modsWithRune].increasedPhys = Zero
       /\ best.dps = R(159)
       /\ ConfigurationDps([iron |-> 2, summer |-> 0, spring |-> 0, quip |-> 0]) = R(136)

EmptyScenarioReached == EmptyScenario /\ Len(evaluated) = 8

Distinct(seq) == {seq[i] : i \in DOMAIN seq}

\* C5 as stated: at most 2 * (S + 1) distinct configurations are evaluated.
EvaluatedAtMostTwiceSPlusOne ==
  (InOptimizer /\ SlotCount >= 1)
    => Cardinality(Distinct(evaluated)) <= 2 * (SlotCount + 1)

\* C5 amended: at most 4 * S distinct configurations are evaluated, and
\* exactly 4 * S by the time the result is returned.
EvaluatedAtMostFourS ==
  (InOptimizer /\ SlotCount >= 1)
    => /\ Cardinality(Distinct(evaluated)) <= 4 * SlotCount
       /\ pc = "returned" => Cardinality(Distinct(evaluated)) = 4 * SlotCount

\* a finished optimization over more than one socket: more than 2 * (S + 1)
\* configurations were evaluated
EvaluatedManyCase ==
  /\ pc = "returned"
  /\ parsed # NULL
  /\ SlotCount = 3
  /\ Cardinality(Distinct(evaluated)) = 12

UnitConfigurations ==
  {[iron |-> 1, summer |-> 0, spring |-> 0, quip |-> 0],
   [iron |-> 0, summer |-> 1, spring |-> 0, quip |-> 0],
   [iron |-> 0, summer |-> 0, spring |-> 1, quip |-> 0],
   [iron |-> 0, summer |-> 0, spring |-> 0, quip |-> 1]}

\* C6: with S = 0 no configuration is evaluated and the result is null; with
\* S = 1 at most 4 candidates are evaluated, each one unit of a single rune
\* type, one candidate per rune type of the catalog.
SocketCountEdge ==
  InOptimizer
    => /\ SlotCount = 0 => (evaluated = <<>> /\ best = NULL /\ pc = "returned")
       /\ SlotCount = 1 =>
            /\ Len(evaluated) <= 4
            /\ Distinct(evaluated) \subseteq UnitConfigurations
            /\ Cardinality(Distinct(evaluated)) = Len(evaluated)
            /\ pc = "returned" => Distinct(evaluated) = UnitConfigurations

SocketEdgeZeroCase == pc = "returned" /\ parsed # NULL /\ SlotCount = 0

SocketEdgeOneCase ==
  pc = "returned" /\ parsed # NULL /\ SlotCount = 1 /\ Len(evaluated) = 4

WellFormed(c, S) ==
  /\ c.iron \in Nat
  /\ c.quip \in Nat
  /\ c.summer \in 0..1
  /\ c.spring \in 0..1
  /\ Total(c) = S

\* C7: for S >= 1 every configuration evaluated, and the one returned, has
\* non-negative counts, spring <= 1, summer <= 1 and counts summing to S.
ConfigurationsWellFormed ==
  (InOptimizer /\ SlotCount >= 1)
    => /\ \A i \in DOMAIN evaluated : WellFormed(evaluated[i], SlotCount)
       /\ best # NULL => WellFormed(best.rune.configuration, SlotCount)
       /\ pc = "returned" => best # NULL

WellFormedCase ==
  /\ pc = "returned"
  /\ parsed # NULL
  /\ SlotCount = 3
  /\ best # NULL
  /\ \E i \in DOMAIN evaluated : evaluated[i].spring = 1 /\ evaluated[i].summer = 1
  /\ \E i \in DOMAIN evaluated : evaluated[i].quip = 3

(***************************************************************************)
(* Properties of the parser                                                *)
(***************************************************************************)
Provenance(s) == s.field[2]

RuneSpans(r) == SelectSeq(r.stats, LAMBDA s : Provenance(s) = "rune")

NonRuneSpans(r) == SelectSeq(r.stats, LAMBDA s : Provenance(s) # "rune")

\* the sum of field k over the first n spans, taken from the last one down
RECURSIVE FieldSum(_, _, _)
FieldSum(spans, k, n) ==
  IF n = 0 THEN Zero
  ELSE RatAdd(F(parseModText(spans[n].text), k), FieldSum(spans, k, n - 1))

FieldTotal(spans, k) == FieldSum(spans, k, Len(spans))

\* what the runes of configuration c contribute to field k
Contribution(c, k) ==
  RatAdd(RatAdd(RatMul(R(c.iron), PerUnit("greater-iron", k)),
                RatMul(R(c.summer), PerUnit("thane-summer", k))),
         RatAdd(RatMul(R(c.spring), PerUnit("thane-spring", k)),
                RatMul(R(c.quip), PerUnit("quipolatl", k))))

\* C12: the record the optimizer adds rune contributions to is, field by
\* field, the sum of parseModText over the non-rune spans only (total record
\* minus rune-only record, every field >= 0), with quality carried over
\* unchanged; the total record sums every span and the rune-only record sums
\* exactly the rune spans.
NonRuneModifiers ==
  /\ (pc = "parsed" /\ parsed # NULL)
       => LET m == modsWithoutRunes(parsed.mods, parsed.runeMods)
          IN  /\ \A k \in RuneModFields :
                   /\ parsed.mods[k] = FieldTotal(row.stats, k)
                   /\ parsed.runeMods[k] = FieldTotal(RuneSpans(row), k)
                   /\ m[k] = FieldTotal(NonRuneSpans(row), k)
                   /\ RatGeq(m[k], Zero)
              /\ m.quality = parsed.mods.quality
  /\ (InOptimizer /\ best # NULL)
       => \A k \in ModFields :
            heap[best.modsWithRune][k]
              = RatAdd(modsWithoutRunes(parsed.mods, parsed.runeMods)[k],
                       Contribution(best.rune.configuration, k))

\* an optimized item with a rune line and two non-rune lines of the same
\* element, and quality
NonRuneCase ==
  /\ pc = "returned"
  /\ parsed # NULL
  /\ best # NULL
  /\ parsed.mods.flatFireMin = R(30)
  /\ parsed.runeMods.flatFireMin = R(23)
  /\ modsWithoutRunes(parsed.mods, parsed.runeMods).flatFireMin = R(7)
  /\ parsed.mods.quality = R(20)

\* the text names companions, minions or allies, or says "have N", in any case
ReferencesEntity(text) ==
  \E i \in 1..Len(text) :
    /\ ~IsNum(text[i])
    /\ \/ text[i].w \in {"companions", "minions", "allies"}
       \/ text[i].w = "have" /\ i + 1 <= Len(text) /\ IsNum(text[i + 1])

\* the N of "N% increased Attack Speed", in any case
AttackSpeedPercent(text) ==
  {text[i].num : i \in {j \in 1..Len(text) - 4 :
      /\ IsNum(text[j])
      /\ \A d \in 1..4 : ~IsNum(text[j + d])
      /\ <<text[j + 1].w, text[j + 2].w, text[j + 3].w, text[j + 4].w>>
           = <<"%", "increased", "attack", "speed">>}}

\* C13: an "N% increased Attack Speed" line adds N to increasedAttackSpeed
\* unless it also references companions, minions, allies or another entity
\* ("have N"), in which case it adds nothing, whatever the letter case.
AttackSpeedAnyCase ==
  (pc = "extracted" /\ AttackSpeedPercent(row.text) # {})
    => IF ReferencesEntity(row.text)
       THEN "increasedAttackSpeed" \notin DOMAIN out
       ELSE /\ "increasedAttackSpeed" \in DOMAIN out
            /\ out.increasedAttackSpeed \in AttackSpeedPercent(row.text)

ElementField ==
  [physical |-> "Phys", fire |-> "Fire", cold |-> "Cold",
   lightning |-> "Lightning", chaos |-> "Chaos"]

\* "Adds N-M <Element> Damage"
DashLine(text) ==
  /\ Len(text) = 6
  /\ text[3] = Dash
  /\ MatchAt([text EXCEPT ![3] = Word("to", "lower")], 1,
             <<"adds", "#", "to", "#", text[5].w, "damage">>)
  /\ text[5].w \in Elements

\* C14: 'Adds N-M <Element> Damage' yields the same record as
\* 'Adds N to M <Element> Damage': flat<Element>Min = N, flat<Element>Max = M.
SeparatorsEquivalent ==
  (pc = "extracted" /\ DashLine(row.text))
    => /\ out = parseModText([row.text EXCEPT ![3] = Word("to", "lower")])
       /\ out = ("flat" \o ElementField[row.text[5].w] \o "Min" :> row.text[2].num)
                 @@ ("flat" \o ElementField[row.text[5].w] \o "Max" :> row.text[4].num)

\* the row with its stat spans in the order perm
Reordered(r, perm) ==
  [r EXCEPT !.stats = [i \in DOMAIN r.stats |-> r.stats[perm[i]]]]

\* C15: the aggregated modifier record equals the field-wise sum of
\* parseModText over each modifier line taken on its own, whatever the order
\* of the lines; lines of the same effect kind add up.
Additive ==
  (pc = "parsed" /\ parsed # NULL)
    => /\ \A k \in RuneModFields : parsed.mods[k] = FieldTotal(row.stats, k)
       /\ row.stats # <<>> =>
            \A perm \in Permutations(DOMAIN row.stats) :
              parseModifiers(Reordered(row, perm)) = parsed.mods

\* three flat fire lines (5-138, 23-34, 2-9) and a chaos line, aggregated
AdditiveCase ==
  /\ pc = "parsed"
  /\ parsed # NULL
  /\ Len(row.stats) = 4
  /\ parsed.mods.flatFireMin = R(30)
  /\ parsed.mods.flatFireMax = R(181)
  /\ parsed.mods.flatChaosMax = R(9)

\* C16: parseRuneSlotCount returns the numeric suffix N of a numSocketsN
\* token, otherwise the number of rune socket markers when that is > 0, and
\* the fallback 2 exactly when there is no sockets element or one with
\* neither a numeric token nor a rune socket marker.
SlotCountRead ==
  (pc = "parsed" /\ parsed # NULL)
    => LET el == row.sockets
           undeterminable ==
             \/ el = NULL
             \/ el.numSockets = <<>> /\ el.runeSockets = 0
       IN  /\ undeterminable => parsed.runeSlotCount = 2
           /\ ~undeterminable =>
                parsed.runeSlotCount
                  = IF Len(el.numSockets) = 1 THEN el.numSockets[1]
                    ELSE el.runeSockets

\* a sockets element whose class token says 1 and which holds 2 rune markers
SlotCountCase ==
  /\ pc = "parsed"
  /\ parsed # NULL
  /\ row.sockets = [numSockets |-> <<1>>, runeSockets |-> 2]
  /\ parsed.runeSlotCount = 1

\* the field's element exists and its text holds "N-M" or "N to M"
HasRange(v) ==
  /\ v # NULL
  /\ \E i \in 1..Len(v.text) - 2 :
       /\ IsNum(v.text[i])
       /\ ~IsNum(v.text[i + 1])
       /\ v.text[i + 1].w \in {"-", "to"}
       /\ IsNum(v.text[i + 2])

\* the field's element exists and its text holds a numeral
HasNumber(v) == v # NULL /\ \E i \in 1..Len(v.text) : IsNum(v.text[i])

\* the item content is found and shows a damage range and an attack rate
Parsable(r) == r.hasRoot /\ HasRange(r.pdamage) /\ HasNumber(r.aps)

\* C17: parseWeaponRow returns null, and no base reconstruction or optimizer
\* run follows, whenever the item lacks a parsable physical damage range or
\* a parsable attack rate; otherwise it returns a record with final, mods,
\* runeMods and runeSlotCount.
NullWithoutFinalStats ==
  /\ pc # "row" =>
       IF Parsable(row)
       THEN /\ parsed # NULL
            /\ {"final", "mods", "runeMods", "runeSlotCount"} \subseteq DOMAIN parsed
            /\ DOMAIN parsed.final = FinalFields
            /\ DOMAIN parsed.mods = ModFields
            /\ DOMAIN parsed.runeMods = RuneModFields
            /\ parsed.runeSlotCount \in Nat
       ELSE /\ parsed = NULL
            /\ pc = "parsed"
            /\ best = NULL
            /\ evaluated = <<>>
  /\ pc = "row" => parseWeaponRow(row) = NULL <=> ~Parsable(row)

\* a row with a damage range whose attack rate text holds no number
NullCase ==
  /\ pc = "parsed"
  /\ parsed = NULL
  /\ row.hasRoot
  /\ HasRange(row.pdamage)
  /\ row.aps # NULL
  /\ row.aps.text # <<>>
  /\ ~HasNumber(row.aps)

\* C18: computeBestRuneVariant and applyRuneToMods are side-effect free: the
\* base, mods and runeMods objects are unchanged, the object passed to each
\* applyRuneToMods call is unchanged and is not the object returned, a second
\* call on the same arguments returns an equal result, and the modsWithRune
\* object of the best candidate holds the non-rune modifiers plus count *
\* per-unit contribution of each rune of its configuration, whatever
\* candidates were evaluated after it.
SideEffectFree ==
  InOptimizer
    => /\ heap[BaseRef] = parsed.base
       /\ heap[ModsRef] = parsed.mods
       /\ heap[RuneModsRef] = parsed.runeMods
       /\ SlotCount >= 1 =>
            /\ heap[ModsWithoutRunesRef]
                 = modsWithoutRunes(parsed.mods, parsed.runeMods)
            /\ \A i \in DOMAIN calls :
                 /\ heap[calls[i].mods] = calls[i].before
                 /\ calls[i].out # calls[i].mods
            /\ best # NULL =>
                 /\ heap[best.modsWithRune] = ConfigurationMods(best.rune.configuration)
                 /\ best.dps = ConfigurationDps(best.rune.configuration)
       /\ pc = "returned" =>
            \E again \in {computeBestRuneVariant(parsed.base, parsed.mods,
                                                 parsed.runeMods, SlotCount)} :
              IF best = NULL THEN again = NULL
              ELSE /\ again # NULL
                   /\ again.rune = best.rune
                   /\ again.dps = best.dps
                   /\ again.modsWithRune = heap[best.modsWithRune]

\* a finished optimization whose last candidate made three applyRuneToMods
\* calls after the best candidate was chosen
SideEffectCase ==
  /\ pc = "returned"
  /\ parsed # NULL
  /\ SlotCount = 3
  /\ best # NULL
  /\ Len(calls) = 3
  /\ \A i \in DOMAIN calls : best.modsWithRune # calls[i].out
  /\ heap[best.modsWithRune] # heap[ModsWithoutRunesRef]

(***************************************************************************)
(* Properties of the content script                                        *)
(***************************************************************************)
\* the row has no optimized DPS: it could not be parsed, it has no rune
\* slot, or the optimizer returns no result
NotOptimized(r) ==
  \E p \in {parseAndReverseEngineer(r)} :
    \/ p = NULL
    \/ ~hasBase(p)
    \/ p.runeSlotCount = 0
    \/ computeBestRuneVariant(p.base, p.mods, p.runeMods, p.runeSlotCount) = NULL

\* the row as the site added it
Pristine(r) == [r EXCEPT !.evaluated = FALSE, !.badges = <<>>]

\* the rows of the page without an optimized DPS
NotOptimizedRows == {r \in PageRows : NotOptimized(r)}

\* listed DPS / price amount of a row
ListedRatio(r) == RatDiv(parseNum(r.dps.text), r.price.amount)

\* C19: for a row without an optimized DPS (no socket, no optimizer result,
\* or not parsed) the badge shows listed DPS / price amount, and so does the
\* row's line of the top list, which shows the listed DPS
FallbackToListedDps ==
  /\ \A i \in DOMAIN rows :
       (rows[i].badges # <<>> /\ Pristine(rows[i]) \in NotOptimizedRows)
         => rows[i].badges[1].text.ratio = toFixed(ListedRatio(rows[i]), 2)
  /\ panel # NULL =>
       \A k \in DOMAIN panel.lines :
         LET r == rows[panel.lines[k].index + 1]
         IN  Pristine(r) \in NotOptimizedRows =>
               /\ panel.lines[k].ratioText = toFixed(ListedRatio(r), 2)
               /\ panel.lines[k].dpsText = toFixed(parseNum(r.dps.text), 1)

\* a badged row that was parsed and has no rune slot, whose listed DPS is
\* not the DPS recomputed from its modifiers, with its line in the top list
FallbackCase ==
  /\ panel # NULL
  /\ \E i \in DOMAIN rows :
       /\ rows[i].badges # <<>>
       /\ \E p \in {parseAndReverseEngineer(rows[i])} :
            /\ hasBase(p)
            /\ p.runeSlotCount = 0
            /\ calcWeaponDps(WeaponInput(p.base, p.mods)).totalDps
                 # parseNum(rows[i].dps.text)
       /\ \E k \in DOMAIN panel.lines : panel.lines[k].index = i - 1

\* a weapon row with a parsable DPS, a positive price with a currency and
\* a details panel
Evaluable(r) ==
  /\ r.dps # NULL
  /\ HasNumber(r.dps)
  /\ r.price # NULL
  /\ r.price.amount # NULL
  /\ RatGt(r.price.amount, Zero)
  /\ (r.price.title # NULL \/ r.price.text # NULL)
  /\ r.details

\* the i-th row was added after initialisation
AddedAfterInit(i) == observing /\ initRows < i /\ i <= Len(rows)

\* the i-th row is marked evaluated and carries a badge
Badged(i) == i <= Len(rows) /\ rows[i].evaluated /\ Len(rows[i].badges) = 1

\* C20: every evaluable row added after initialisation is eventually marked
\* evaluated and carries a badge, when observer notifications and
\* animation-frame callbacks are delivered
NewRowsProcessed ==
  \A i \in 1..MaxRows :
    (AddedAfterInit(i) /\ Evaluable(rows[i])) ~> Badged(i)

\* a row added after initialisation has been badged by an animation frame
NewRowBadged ==
  \E i \in DOMAIN rows : AddedAfterInit(i) /\ Evaluable(rows[i]) /\ Badged(i)

\* the row has no DPS field, or its DPS or its price cannot be parsed
Unrated(r) ==
  \/ r.dps = NULL
  \/ ~HasNumber(r.dps)
  \/ r.price = NULL
  \/ r.price.amount = NULL
  \/ ~RatGt(r.price.amount, Zero)
  \/ (r.price.title = NULL /\ r.price.text = NULL)

\* the i-th row has a line in the top-list panel
Listed(i) == panel # NULL /\ \E k \in DOMAIN panel.lines : panel.lines[k].index = i - 1

BadgeShowsListedRatio ==
  \A i \in DOMAIN rows :
    rows[i].badges # <<>> =>
      rows[i].badges[1].text =
        [ratio |-> toFixed(ListedRatio(rows[i]), 2),
         unit |-> formatCurrency(getPrice(rows[i]).currency)]

(***************************************************************************)
(* Further properties of the optimizer                                     *)
(***************************************************************************)
\* the configurations the loops evaluate: every socket filled
Enumerated(S) == {c \in LegalConfigurations(S) : Total(c) = S}

\* c is evaluated before d: spring is the outer loop, then summer, then iron
EnumeratedBefore(c, d) ==
  \/ c.spring < d.spring
  \/ c.spring = d.spring /\ c.summer < d.summer
  \/ c.spring = d.spring /\ c.summer = d.summer /\ c.iron < d.iron

\* the configurations whose DPS equals the DPS returned
Maximal == {c \in Enumerated(SlotCount) : ConfigurationDps(c) = best.dps}

FirstMaximalReturned ==
  (pc = "returned" /\ SlotCount >= 1)
    => /\ best # NULL
       /\ best.rune.configuration \in Maximal
       /\ \A c \in Maximal : ~EnumeratedBefore(c, best.rune.configuration)

StrictlyGreaterReplaces ==
  (best # NULL /\ best' # NULL /\ best'.rune # best.rune)
    => RatGt(best'.dps, best.dps)

\* C23: the configuration returned is the first, in the order spring (outer),
\* summer, iron (inner), whose DPS equals the maximum, and the current best
\* is replaced only by a strictly greater DPS
TiesFirstSeen == [](FirstMaximalReturned) /\ [][StrictlyGreaterReplaces]_vars

\* two configurations reach the maximum and the one returned (Spring and
\* Iron) is evaluated before the other (Spring and Summer)
TieCase ==
  /\ pc = "returned"
  /\ SlotCount = 2
  /\ best # NULL
  /\ best.rune.configuration = [iron |-> 1, summer |-> 0, spring |-> 1, quip |-> 0]
  /\ [iron |-> 0, summer |-> 1, spring |-> 1, quip |-> 0] \in Maximal

(***************************************************************************)
(* Further properties of the content script                                *)
(***************************************************************************)
AtMostOnePending ==
  /\ frames \in {0, 1}
  /\ processScheduled <=> frames = 1

\* an observer notification delivered while a callback is pending leaves
\* that one callback pending
NotificationAbsorbed ==
  (processScheduled /\ records /\ ~records' /\ rows' = rows)
    => frames' = frames /\ processScheduled'

\* C24: at most one animation-frame callback is pending, processScheduled
\* is true exactly while one is pending, and a notification that arrives
\* before the callback runs adds no further pass
Coalesced == [](AtMostOnePending) /\ [][NotificationAbsorbed]_vars

\* a notification arrives while a callback is already pending
CoalescedCase == processScheduled /\ frames = 1 /\ records

\* no pass is scheduled or running and no notification is waiting
Quiet == frames = 0 /\ ~processScheduled /\ ~records

\* C25: once the page has stopped adding rows, the script's own writes
\* trigger finitely many further passes, after which none is scheduled
Quiesces == <>[]Quiet

\* the page is full, a pass run from an animation frame has badged a row
\* added after initialisation, and the script has come to rest
QuiescedCase ==
  /\ Len(rows) = MaxRows
  /\ observing
  /\ Quiet
  /\ \E i \in DOMAIN rows : i > initRows /\ rows[i].evaluated

\* C26: in the script that renders its top list inside the observed
\* container from the observer callback, the passes come to an end: from
\* some point on no notification is waiting
BoxQuiesces == <>[](~records)

\* every row holds at most one badge element
AtMostOneBadge == \A i \in DOMAIN rows : Len(rows[i].badges) <= 1

\* a step leaves a row that is marked evaluated marked, with the badge text
\* and title it has
BadgeFrozen ==
  \A i \in DOMAIN rows :
    rows[i].evaluated =>
      /\ i \in DOMAIN rows'
      /\ rows'[i].evaluated
      /\ rows'[i].badges = rows[i].badges

\* C27: across processAllRows passes a row holds at most one badge, and the
\* badge of a row marked evaluated is never changed again, whatever the page
\* does to the DPS, the price or the modifiers of the row afterwards
OneBadgeWrittenOnce == [](AtMostOneBadge) /\ [][BadgeFrozen]_vars

\* the badge the row would get from its present data
freshBadges(r) == processRow([r EXCEPT !.evaluated = FALSE, !.badges = <<>>]).badges

\* a marked row was rewritten by the page, the pass that followed has run,
\* and the row still shows the badge of its old data
StaleBadgeCase ==
  /\ observing
  /\ Quiet
  /\ \E i \in DOMAIN rows :
       /\ rows[i].evaluated
       /\ Len(rows[i].badges) = 1
       /\ rows[i].badges # freshBadges(rows[i])

\* the indexes (from 0) of the rows evaluateRowValue returns a value for
EvaluableRows == {k \in 0..(Len(rows) - 1) : evaluateRowValue(rows[k + 1]) # NULL}

\* the ratio of the row with index k
ratioOfRow(k) == evaluateRowValue(rows[k + 1]).ratio

\* the row indexes the panel lists, in the order of its lines
ListedIndexes == [i \in DOMAIN panel.lines |-> panel.lines[i].index]

\* C28: after a processAllRows pass over n >= 1 evaluable rows the panel
\* lists min(5, n) different evaluable rows in non-increasing order of
\* ratio, no row left out has a larger ratio than a listed one, every listed
\* price amount is positive, and the `evaluated` array is still in row order
TopFiveListed ==
  (pc = "listed" /\ EvaluableRows # {}) =>
    /\ panel # NULL
    /\ Len(panel.lines) = Min(5, Cardinality(EvaluableRows))
    /\ \A i \in DOMAIN panel.lines : ListedIndexes[i] \in EvaluableRows
    /\ \A i, j \in DOMAIN panel.lines : i < j =>
         /\ ListedIndexes[i] # ListedIndexes[j]
         /\ RatGeq(ratioOfRow(ListedIndexes[i]), ratioOfRow(ListedIndexes[j]))
    /\ \A i \in DOMAIN panel.lines :
         /\ panel.lines[i].ratioText = toFixed(ratioOfRow(ListedIndexes[i]), 2)
         /\ RatLt(Zero, panel.lines[i].priceAmount)
         /\ \A k \in EvaluableRows :
              (\A j \in DOMAIN panel.lines : ListedIndexes[j] # k) =>
                RatGeq(ratioOfRow(ListedIndexes[i]), ratioOfRow(k))
    /\ Len(out) = Cardinality(EvaluableRows)
    /\ \A i, j \in DOMAIN out : i < j => out[i].index < out[j].index

\* six evaluable rows, the best of them last on the page: the panel shows
\* five lines and leaves one row out
TopFiveCase ==
  /\ pc = "listed"
  /\ Cardinality(EvaluableRows) = 6
  /\ Len(panel.lines) = 5
  /\ ListedIndexes[1] = 5
  /\ \E k \in EvaluableRows : RatLt(ratioOfRow(k), ratioOfRow(ListedIndexes[5]))

(***************************************************************************)
(* Further properties of the pipeline                                      *)
(***************************************************************************)
\* the DPS calcWeaponDps gives for the parsed item with the modifiers it has
CurrentDps == calcWeaponDps(WeaponInput(parsed.base, parsed.mods)).totalDps

\* C29: the DPS of the variant computeBestRuneVariant returns for a parsed
\* item with at least one socket is not below the DPS computed for the item
\* with its present modifiers
BestNotBelowCurrent ==
  (pc = "returned" /\ best # NULL) => RatGeq(best.dps, CurrentDps)

ElementalBaseFields ==
  {"baseFireMin", "baseFireMax", "baseColdMin", "baseColdMax",
   "baseLightningMin", "baseLightningMax", "baseChaosMin", "baseChaosMax"}

\* the optimizer is about to evaluate a candidate
AtCandidate == pc = "loop" /\ springCount <= springLimit(parsed.runeSlotCount)

\* the elemental DPS of the candidate at the present loop position
CandidateEleDps ==
  LET quipCount == remainingAfterSpringSummer(parsed.runeSlotCount, springCount,
                                              summerCount) - ironCount
      st == modsWithRunes(heap, ironCount, summerCount, springCount, quipCount)
  IN  calcWeaponDps(CandidateInput(st.heap[BaseRef], st.heap[st.ref])).eleDps

\* C30: every base elemental field parseAndReverseEngineer reconstructs is
\* at least 0, and so is the elemental DPS of every candidate the optimizer
\* evaluates for the item
ElementalNeverNegative ==
  /\ hasBase(parsed) =>
       \A k \in ElementalBaseFields : RatGeq(parsed.base[k], Zero)
  /\ AtCandidate => RatGeq(CandidateEleDps, Zero)

====
